---- MODULE Spec2Model ----
(***************************************************************************)
(* Retrieval-and-query subsystem of the analytical agent: the FAISS-backed *)
(* VectorStore and its manager, CSV / document ingestion, the dashboard    *)
(* cleanup and document retrieval, the pandas engine and process_query.    *)
(*                                                                         *)
(* Vectors are integer sequences.  A text is a sequence of string tokens.  *)
(* A unit-length vector is held in fixed point: One stands for 1.0, so a   *)
(* squared L2 distance d is held as d * One * One.                         *)
(***************************************************************************)
EXTENDS Integers, Sequences, FiniteSets, TLC

\* ---------------------------------------------------------------- bounds
\* settings.VECTOR_DIMENSION (3072 in the source), scaled down.
VECTOR_DIMENSION == 2
\* largest batch handed to one add_vectors call of the store under test
MaxBatch == 10
\* number of add_vectors calls made on the store under test
MaxAdds == 2
\* largest k / top_k asked of a search
MaxK == 2

\* largest n asked of top_n and compare_top
MaxTopN == 2
\* largest threshold handed to filter_threshold
MaxValue == 2

\* ------------------------------------------------------- program constants
\* filtered_df.head(100), row_indices[:100]
HeadLimit == 100
\* search_k = k * 10 when a file_id filter is given
OverFetch == 10
\* original_text = text[:500]
PreviewLen == 500
\* fixed-point representation of the unit length produced by normalize_L2
One == 5

None == "None"
NoneText == <<"None">>
Ids == {"A", "B"}

Min(a, b) == IF a < b THEN a ELSE b

\* ------------------------------------------------------------ vector math
Vec(x, y) == [i \in 1..VECTOR_DIMENSION |-> IF i = 1 THEN x ELSE IF i = 2 THEN y ELSE 0]
\* a vector one component wider than the store dimension
WideVec(x, y) == [i \in 1..(VECTOR_DIMENSION + 1) |-> IF i = 1 THEN x ELSE IF i = 2 THEN y ELSE 0]

RECURSIVE SumSq(_, _)
SumSq(v, n) == IF n = 0 THEN 0 ELSE v[n] * v[n] + SumSq(v, n - 1)

\* L2 norm; every vector of the model has an integer norm
Norm(v) == CHOOSE n \in 0..10 : n * n = SumSq(v, Len(v))

\* faiss.normalize_L2 on one row: scale to unit length, a zero row is kept
normalize_L2(v) ==
    IF Norm(v) = 0 THEN v ELSE [i \in 1..Len(v) |-> (One * v[i]) \div Norm(v)]

RECURSIVE SqDist(_, _, _)
SqDist(u, q, n) ==
    IF n = 0 THEN 0 ELSE (u[n] - q[n]) * (u[n] - q[n]) + SqDist(u, q, n - 1)

\* squared L2 distance as IndexFlatL2 reports it (times One * One)
L2(u, q) == SqDist(u, q, Len(u))

\* ------------------------------------------------------------ VectorStore
\* VectorStore.__init__
NewStore(dimension) == [dimension |-> dimension, index |-> <<>>, metadata |-> <<>>]

\* VectorStore.size: index.ntotal
size(store) == Len(store.index)

AddMutNoWidthCheck(store, vectors, width, metadata) ==
    IF Len(vectors) # Len(metadata)
    THEN [raised |-> TRUE, store |-> store]
    ELSE [raised |-> FALSE,
          store |-> [store EXCEPT
                        !.index = @ \o [i \in 1..Len(vectors) |-> normalize_L2(vectors[i])],
                        !.metadata = @ \o metadata]]

AddMutIndexFirst(store, vectors, width, metadata) ==
    IF width # store.dimension
    THEN [raised |-> TRUE, store |-> store]
    ELSE IF Len(vectors) # Len(metadata)
    THEN [raised |-> TRUE,
          store |-> [store EXCEPT
                        !.index = @ \o [i \in 1..Len(vectors) |-> normalize_L2(vectors[i])]]]
    ELSE [raised |-> FALSE,
          store |-> [store EXCEPT
                        !.index = @ \o [i \in 1..Len(vectors) |-> normalize_L2(vectors[i])],
                        !.metadata = @ \o metadata]]

\* VectorStore.add_vectors: vectors is an array of Len(vectors) rows, each
\* `width` wide (shape[0], shape[1]); the result says whether it raised.
add_vectors(store, vectors, width, metadata) ==
    IF Len(vectors) # Len(metadata)
    THEN [raised |-> TRUE, store |-> store]
    ELSE IF width # store.dimension
    THEN [raised |-> TRUE, store |-> store]
    ELSE [raised |-> FALSE,
          store |-> [store EXCEPT
                        !.index = @ \o [i \in 1..Len(vectors) |-> normalize_L2(vectors[i])],
                        !.metadata = @ \o metadata]]

RECURSIVE Distances(_, _, _)
\* the distance of each of the first n rows of the index to q
Distances(index, q, n) ==
    IF n = 0 THEN <<>> ELSE Append(Distances(index, q, n - 1), L2(index[n], q))

RECURSIVE Nearest(_, _, _)
\* the n nearest of the rows S, nearest first, equal distances in
\* insertion order
Nearest(D, S, n) ==
    IF n = 0 \/ S = {} THEN <<>>
    ELSE LET i == CHOOSE c \in S : \A j \in S : D[c] < D[j] \/ (D[c] = D[j] /\ c <= j)
         IN  <<i>> \o Nearest(D, S \ {i}, n - 1)

\* index.search(query, n); rows are numbered from 1 here
index_search(store, q, n) ==
    Nearest(Distances(store.index, q, Len(store.index)), 1..Len(store.index), n)

RECURSIVE Collect(_, _, _, _, _, _)
\* the loop of VectorStore.search over the raw neighbours
Collect(store, q, raw, p, k, file_id) ==
    IF p > Len(raw) THEN <<>>
    ELSE LET idx == raw[p]
             meta == store.metadata[idx]
         IN  IF idx <= Len(store.metadata)
             THEN IF file_id # None /\ meta.file_id # file_id
                  THEN Collect(store, q, raw, p + 1, k, file_id)
                  ELSE IF k <= 1
                       THEN << <<idx, L2(store.index[idx], q)>> >>
                       ELSE << <<idx, L2(store.index[idx], q)>> >>
                            \o Collect(store, q, raw, p + 1, k - 1, file_id)
             ELSE Collect(store, q, raw, p + 1, k, file_id)

SearchMutNoFilter(store, query_vector, k, file_id) ==
    LET q == normalize_L2(query_vector)
        search_k == IF file_id # None THEN k * OverFetch ELSE k
        raw == index_search(store, q, Min(search_k, Len(store.metadata)))
    IN  Collect(store, q, raw, 1, k, None)

\* VectorStore.search: a list of <<row, distance>>; row i stands for
\* metadata[i], which is what the code returns.
search(store, query_vector, k, file_id) ==
    LET q == normalize_L2(query_vector)
        search_k == IF file_id # None THEN k * OverFetch ELSE k
        raw == index_search(store, q, Min(search_k, Len(store.metadata)))
    IN  Collect(store, q, raw, 1, k, file_id)

\* ------------------------------------------------------------ persistence
\* an absent dict entry or file
Absent == [absent |-> TRUE]

\* VectorStore.save: what faiss.write_index and pickle.dump put on disk
save(store) ==
    [faiss |-> [d |-> store.dimension, vectors |-> store.index],
     pkl |-> [metadata |-> store.metadata]]

LoadMutForgetIndex(faiss, pkl) ==
    IF faiss = Absent \/ pkl = Absent
    THEN [raised |-> TRUE, store |-> Absent]
    ELSE [raised |-> FALSE,
          store |-> [dimension |-> faiss.d, index |-> <<>>, metadata |-> pkl.metadata]]

\* VectorStore.load from the two artifacts of a file_id; raises
\* FileNotFoundError when either is missing
load(faiss, pkl) ==
    IF faiss = Absent \/ pkl = Absent
    THEN [raised |-> TRUE, store |-> Absent]
    ELSE [raised |-> FALSE,
          store |-> [dimension |-> faiss.d, index |-> faiss.vectors,
                     metadata |-> pkl.metadata]]

\* ------------------------------------------------------ VectorStoreManager
CreateMutKeepExisting(mstores, file_id) ==
    IF mstores[file_id] = Absent
    THEN [mstores EXCEPT ![file_id] = NewStore(VECTOR_DIMENSION)]
    ELSE mstores

\* VectorStoreManager.create_store: the manager's stores afterwards
create_store(mstores, file_id) ==
    [mstores EXCEPT ![file_id] = NewStore(VECTOR_DIMENSION)]

\* a mutation of get_store that registers an empty store for a file_id it
\* cannot load
GetMutRegisterEmpty(mstores, faiss, pkl, file_id) ==
    IF mstores[file_id] = Absent
    THEN LET l == load(faiss[file_id], pkl[file_id])
         IN  IF l.raised
             THEN [store |-> Absent,
                   stores |-> [mstores EXCEPT ![file_id] = NewStore(VECTOR_DIMENSION)]]
             ELSE [store |-> l.store, stores |-> [mstores EXCEPT ![file_id] = l.store]]
    ELSE [store |-> mstores[file_id], stores |-> mstores]

\* VectorStoreManager.get_store: the store returned (Absent for None) and
\* the manager's stores afterwards
get_store(mstores, faiss, pkl, file_id) ==
    IF mstores[file_id] = Absent
    THEN LET l == load(faiss[file_id], pkl[file_id])
         IN  IF l.raised
             THEN [store |-> Absent, stores |-> mstores]
             ELSE [store |-> l.store, stores |-> [mstores EXCEPT ![file_id] = l.store]]
    ELSE [store |-> mstores[file_id], stores |-> mstores]

\* VectorStoreManager.list_stores: in-memory keys and *.faiss stems (the
\* code returns them sorted; the set is kept here)
list_stores(mstores, faiss) ==
    {f \in Ids : mstores[f] # Absent} \cup {f \in Ids : faiss[f] # Absent}

\* ----------------------------------------------------- dicts (insertion order)
DictHas(d, k) == \E i \in 1..Len(d) : d[i].key = k
DictGet(d, k) == d[CHOOSE i \in 1..Len(d) : d[i].key = k].val
DictSet(d, k, v) ==
    IF DictHas(d, k)
    THEN [i \in 1..Len(d) |-> IF d[i].key = k THEN [key |-> k, val |-> v] ELSE d[i]]
    ELSE Append(d, [key |-> k, val |-> v])
DictKeys(d) == [i \in 1..Len(d) |-> d[i].key]

\* cell values: NaN is a missing cell, digits are numbers, anything else text
NaN == "NaN"
Numbers == {"0", "1", "2", "3"}

\* text[:500]
Preview(text) == SubSeq(text, 1, Min(PreviewLen, Len(text)))

\* gemini_client.generate_embedding: the external embedding service, a
\* fixed function of the text; `wide` is a service answering with vectors
\* of another width than the store expects
generate_embedding(text, wide) ==
    LET h == (Len(text) + Cardinality({i \in 1..Len(text) : text[i] \in Numbers})) % 3
        x == IF h = 0 THEN 1 ELSE IF h = 1 THEN 0 ELSE 3
        y == IF h = 0 THEN 0 ELSE IF h = 1 THEN 2 ELSE 4
    IN  IF wide THEN WideVec(x, y) ELSE Vec(x, y)

\* ------------------------------------------------------------ CSVIngestion
\* A table as pd.read_csv yields it: columns (at least one) and rows of
\* cells.
CsvFiles ==
    { [columns |-> <<"c1">>, rows |-> <<>>],
      [columns |-> <<"c1">>, rows |-> << <<"3">> >>],
      [columns |-> <<"c1", "c2">>, rows |-> << <<"1", NaN>>, <<"2", "x">> >>] }

RECURSIVE RowParts(_, _, _)
RowParts(row, columns, n) ==
    IF n = 0 THEN <<>>
    ELSE RowParts(row, columns, n - 1)
         \o (IF row[n] # NaN THEN <<columns[n], row[n]>> ELSE <<>>)

\* CSVIngestion.create_row_text: "col: value" of every non-missing cell
create_row_text(row, columns) == RowParts(row, columns, Len(columns))

RECURSIVE ColumnValues(_, _, _)
ColumnValues(df, c, n) ==
    IF n = 0 THEN <<>>
    ELSE ColumnValues(df, c, n - 1)
         \o (IF df.rows[n][c] # NaN THEN <<df.rows[n][c]>> ELSE <<>>)

\* pd.api.types.is_numeric_dtype of column c: read_csv types a column
\* int64 or float64 when every cell is a number or missing, and object
\* when some cell is text or the table has no rows
is_numeric_dtype(df, c) ==
    /\ Len(df.rows) > 0
    /\ \A n \in 1..Len(df.rows) : df.rows[n][c] \in Numbers \cup {NaN}

\* CSVIngestion.create_column_summary of column c: the kind of the column
\* and the values its statistics are computed from
create_column_summary(df, c) ==
    <<"Column", df.columns[c],
      IF is_numeric_dtype(df, c) THEN "numeric" ELSE "text/categorical">>
    \o ColumnValues(df, c, Len(df.rows))

\* a mutation of analyze_dataframe that lists every column as text
AnalyzeMutAllText(df, file_id) ==
    [file_id |-> file_id,
     num_rows |-> Len(df.rows),
     num_columns |-> Len(df.columns),
     columns |-> df.columns,
     numeric_columns |->
        SelectSeq(df.columns, LAMBDA col :
            \E c \in 1..Len(df.columns) : df.columns[c] = col /\ is_numeric_dtype(df, c)),
     text_columns |-> df.columns]

\* CSVIngestion.analyze_dataframe
analyze_dataframe(df, file_id) ==
    [file_id |-> file_id,
     num_rows |-> Len(df.rows),
     num_columns |-> Len(df.columns),
     columns |-> df.columns,
     numeric_columns |->
        SelectSeq(df.columns, LAMBDA col :
            \E c \in 1..Len(df.columns) : df.columns[c] = col /\ is_numeric_dtype(df, c)),
     text_columns |->
        SelectSeq(df.columns, LAMBDA col :
            \E c \in 1..Len(df.columns) : df.columns[c] = col /\ ~is_numeric_dtype(df, c))]

CsvTextsMutColumnsFirst(df) ==
    [c \in 1..Len(df.columns) |-> create_column_summary(df, c)]
    \o [n \in 1..Len(df.rows) |-> create_row_text(df.rows[n], df.columns)]

\* _vectorize_dataframe: the texts embedded, in the order their vectors
\* are appended to vectors_list
CsvTexts(df) ==
    [n \in 1..Len(df.rows) |-> create_row_text(df.rows[n], df.columns)]
    \o [c \in 1..Len(df.columns) |-> create_column_summary(df, c)]

\* _vectorize_dataframe: metadata_list
CsvMetadata(df, file_id) ==
    [n \in 1..Len(df.rows) |->
        [file_id |-> file_id, row_idx |-> n - 1, column_name |-> None,
         is_row_vector |-> TRUE,
         original_text |-> Preview(create_row_text(df.rows[n], df.columns))]]
    \o [c \in 1..Len(df.columns) |->
        [file_id |-> file_id, row_idx |-> -1, column_name |-> df.columns[c],
         is_row_vector |-> FALSE,
         original_text |-> create_column_summary(df, c)]]

\* The common tail of _vectorize_dataframe and _vectorize_document:
\* create_store, one generate_embedding call per text (call number fail_at
\* raises, 0 for none), np.vstack (raises on an empty list), add_vectors,
\* save_store.  Yields the manager's stores and the two artifacts afterwards.
Vectorize(mstores, faiss, pkl, file_id, texts, metadata_list, fail_at, wide) ==
    LET created == create_store(mstores, file_id)
        failed == [raised |-> TRUE, stores |-> created, faiss |-> faiss, pkl |-> pkl]
        vectors == [i \in 1..Len(texts) |-> generate_embedding(texts[i], wide)]
        added == add_vectors(created[file_id], vectors,
                             IF wide THEN VECTOR_DIMENSION + 1 ELSE VECTOR_DIMENSION,
                             metadata_list)
        saved == save(added.store)
    IN  IF fail_at >= 1 /\ fail_at <= Len(texts) THEN failed
        ELSE IF Len(texts) = 0 THEN failed
        ELSE IF added.raised THEN failed
        ELSE [raised |-> FALSE,
              stores |-> [created EXCEPT ![file_id] = added.store],
              faiss |-> [faiss EXCEPT ![file_id] = saved.faiss],
              pkl |-> [pkl EXCEPT ![file_id] = saved.pkl]]

\* CSVIngestion._vectorize_dataframe
_vectorize_dataframe(mstores, faiss, pkl, df, file_id, fail_at, wide) ==
    Vectorize(mstores, faiss, pkl, file_id, CsvTexts(df), CsvMetadata(df, file_id),
              fail_at, wide)

\* -------------------------------------------------------- DocumentIngestion
\* A document text is a sequence of lines (text.split('\n')), a line a
\* sequence of one-character words, already stripped; <<>> is a blank
\* line.  A string is a sequence of one-character tokens, SP and NL being
\* the blank and the line break.
SP == " "
NL == "\n"

RECURSIVE Join(_, _)
\* " ".join(words)
Join(words, n) ==
    IF n = 0 THEN <<>>
    ELSE IF n = 1 THEN <<words[1]>>
    ELSE Join(words, n - 1) \o <<SP, words[n]>>

\* str.split(): the words of a string
Words(str) == SelectSeq(str, LAMBDA t : t # SP /\ t # NL)

\* words[k:] of Python for k <= 0
TailFrom(words, k) ==
    IF k = 0 \/ 0 - k >= Len(words) THEN words
    ELSE SubSeq(words, Len(words) + k + 1, Len(words))

RECURSIVE ChunkLoop(_, _, _, _, _, _)
\* the loop of chunk_text from line p on
ChunkLoop(lines, p, chunks, current_chunk, chunk_size, overlap) ==
    IF p > Len(lines)
    THEN IF current_chunk # <<>> THEN Append(chunks, current_chunk) ELSE chunks
    ELSE LET para == Join(lines[p], Len(lines[p]))
         IN  IF para = <<>>
             THEN ChunkLoop(lines, p + 1, chunks, current_chunk, chunk_size, overlap)
             ELSE IF Len(current_chunk) + Len(para) > chunk_size /\ current_chunk # <<>>
             THEN LET words == Words(current_chunk)
                      kept == TailFrom(words, (0 - overlap) \div 5)
                      overlap_text == Join(kept, Len(kept))
                  IN  ChunkLoop(lines, p + 1, Append(chunks, current_chunk),
                                overlap_text \o <<SP>> \o para, chunk_size, overlap)
             ELSE ChunkLoop(lines, p + 1, chunks,
                            IF current_chunk # <<>>
                            THEN current_chunk \o <<NL>> \o para ELSE para,
                            chunk_size, overlap)

\* a mutation of chunk_text that forgets the final buffer
ChunkMutDropLast(lines, chunk_size, overlap) ==
    LET chunks == ChunkLoop(lines, 1, <<>>, <<>>, chunk_size, overlap)
    IN  SubSeq(chunks, 1, Len(chunks) - 1)

\* a mutation of chunk_text that closes a chunk two characters late
ChunkMutLate(lines, chunk_size, overlap) ==
    ChunkLoop(lines, 1, <<>>, <<>>, chunk_size + 2, overlap)

\* DocumentIngestion.chunk_text
chunk_text(lines, chunk_size, overlap) ==
    ChunkLoop(lines, 1, <<>>, <<>>, chunk_size, overlap)

\* chunk_size and overlap of chunk_text (1000 and 200 characters in the
\* source), scaled down
CHUNK_SIZE == 4
OVERLAP == 5

\* The documents read: lines, and the Q/Ans/ANALYSIS blocks the patterns
\* of extract_questions_and_answers find in them.
DocFiles ==
    { [lines |-> << <<>> >>, qa |-> <<>>],
      [lines |-> << <<"a", "b">>, <<>>, <<"c", "d">> >>,
       qa |-> << [question |-> <<"q">>, answer |-> <<>>, analysis |-> <<>>] >>],
      [lines |-> << <<"e">> >>, qa |-> <<>>] }

\* DocumentIngestion.extract_questions_and_answers
extract_questions_and_answers(doc) == doc.qa

RECURSIVE TextLen(_, _)
\* len(text) of the whole document
TextLen(lines, n) ==
    IF n = 0 THEN 0
    ELSE TextLen(lines, n - 1) + Len(Join(lines[n], Len(lines[n])))
         + (IF n > 1 THEN 1 ELSE 0)

\* _vectorize_document: the text embedded for a Q&A pair
qa_text(qa) ==
    <<"Question:">> \o qa.question \o <<NL, "Answer:">> \o qa.answer
    \o (IF qa.analysis # <<>> THEN <<NL, "Analysis:">> \o qa.analysis ELSE <<>>)

\* _vectorize_document: the texts embedded, in the order their vectors
\* are appended to vectors_list
DocTexts(chunks, qa_pairs) ==
    chunks \o [i \in 1..Len(qa_pairs) |-> qa_text(qa_pairs[i])]

\* _vectorize_document: metadata_list
DocMetadata(chunks, qa_pairs, file_id) ==
    [i \in 1..Len(chunks) |->
        [file_id |-> file_id, chunk_idx |-> i - 1, chunk_type |-> "text",
         original_text |-> Preview(chunks[i]),
         question_text |-> NoneText, answer_text |-> NoneText,
         analysis_text |-> NoneText]]
    \o [i \in 1..Len(qa_pairs) |->
        [file_id |-> file_id, chunk_idx |-> Len(chunks) + i - 1,
         chunk_type |-> "qa_pair",
         original_text |-> Preview(qa_text(qa_pairs[i])),
         question_text |-> qa_pairs[i].question,
         answer_text |-> qa_pairs[i].answer,
         analysis_text |-> qa_pairs[i].analysis]]

\* DocumentIngestion._vectorize_document
_vectorize_document(mstores, faiss, pkl, chunks, qa_pairs, file_id, fail_at, wide) ==
    Vectorize(mstores, faiss, pkl, file_id, DocTexts(chunks, qa_pairs),
              DocMetadata(chunks, qa_pairs, file_id), fail_at, wide)

\* DocumentIngestion.ingest_document up to the registration: what is kept
\* for the file_id (documents, document_metadata, document_chunks)
DocEntry(doc, file_id) ==
    LET chunks == chunk_text(doc.lines, CHUNK_SIZE, OVERLAP)
        qa_pairs == extract_questions_and_answers(doc)
    IN  [lines |-> doc.lines, chunks |-> chunks, qa_pairs |-> qa_pairs,
         metadata |-> [file_id |-> file_id,
                       num_characters |-> TextLen(doc.lines, Len(doc.lines)),
                       num_chunks |-> Len(chunks),
                       num_qa_pairs |-> Len(qa_pairs),
                       has_questions |-> Len(qa_pairs) > 0]]

\* ---------------------------------------------------------------- retrieval
RECURSIVE Entries(_, _, _)
\* search_document: the result tuples built from one store's hits
Entries(store, hits, n) ==
    IF n = 0 THEN <<>>
    ELSE LET meta == store.metadata[hits[n][1]]
         IN  Append(Entries(store, hits, n - 1),
                    [text |-> meta.original_text,
                     similarity |-> One * One - hits[n][2],
                     file_id |-> meta.file_id,
                     chunk_type |-> meta.chunk_type,
                     question |-> meta.question_text,
                     answer |-> meta.answer_text,
                     analysis |-> meta.analysis_text])

RECURSIVE SearchLoop(_, _, _, _, _, _, _, _)
\* the loop of search_document over file_ids from position i on; a hit
\* whose metadata has no chunk_type (a VectorMetadata) raises AttributeError
SearchLoop(file_ids, i, mstores, faiss, pkl, query_vector, top_k, results) ==
    IF i > Len(file_ids)
    THEN [raised |-> FALSE, stores |-> mstores, results |-> results]
    ELSE LET fid == file_ids[i]
             got == get_store(mstores, faiss, pkl, fid)
             hits == search(got.store, query_vector, top_k, fid)
         IN  IF got.store = Absent
             THEN SearchLoop(file_ids, i + 1, got.stores, faiss, pkl,
                             query_vector, top_k, results)
             ELSE IF \E n \in 1..Len(hits) :
                        "chunk_type" \notin DOMAIN got.store.metadata[hits[n][1]]
             THEN [raised |-> TRUE, stores |-> got.stores, results |-> <<>>]
             ELSE SearchLoop(file_ids, i + 1, got.stores, faiss, pkl, query_vector,
                             top_k, results \o Entries(got.store, hits, Len(hits)))

\* a mutation of search_document that evicts every store from the manager
SearchDocMutEvict(docs, mstores, faiss, pkl, query_vector, file_id, top_k) ==
    LET file_ids == IF file_id # None THEN <<file_id>> ELSE DictKeys(docs)
        looped == SearchLoop(file_ids, 1, mstores, faiss, pkl, query_vector, top_k, <<>>)
        keys == [n \in 1..Len(looped.results) |-> 0 - looped.results[n].similarity]
        order == Nearest(keys, 1..Len(keys), top_k)
    IN  [raised |-> looped.raised,
         stores |-> [f \in Ids |-> Absent],
         results |-> [n \in 1..Len(order) |-> looped.results[order[n]]]]

\* a mutation of search_document that stops at the first known source
SearchDocMutFirstOnly(docs, mstores, faiss, pkl, query_vector, file_id, top_k) ==
    LET file_ids == IF file_id # None THEN <<file_id>>
                    ELSE SubSeq(DictKeys(docs), 1, Min(1, Len(docs)))
        looped == SearchLoop(file_ids, 1, mstores, faiss, pkl, query_vector, top_k, <<>>)
        keys == [n \in 1..Len(looped.results) |-> 0 - looped.results[n].similarity]
        order == Nearest(keys, 1..Len(keys), top_k)
    IN  [raised |-> looped.raised,
         stores |-> looped.stores,
         results |-> [n \in 1..Len(order) |-> looped.results[order[n]]]]

\* DocumentIngestion.search_document: the stable sort by descending
\* similarity and the cut to top_k follow the loop
search_document(docs, mstores, faiss, pkl, query_vector, file_id, top_k) ==
    LET file_ids == IF file_id # None THEN <<file_id>> ELSE DictKeys(docs)
        looped == SearchLoop(file_ids, 1, mstores, faiss, pkl, query_vector, top_k, <<>>)
        keys == [n \in 1..Len(looped.results) |-> 0 - looped.results[n].similarity]
        order == Nearest(keys, 1..Len(keys), top_k)
    IN  [raised |-> looped.raised,
         stores |-> looped.stores,
         results |-> [n \in 1..Len(order) |-> looped.results[order[n]]]]

\* ------------------------------------------------------------------ cleanup
CleanupMutNested(faiss, pkl, file_id) ==
    [faiss |-> [faiss EXCEPT ![file_id] = Absent],
     pkl |-> IF faiss[file_id] # Absent THEN [pkl EXCEPT ![file_id] = Absent] ELSE pkl,
     deleted |-> (IF faiss[file_id] # Absent THEN {"faiss"} ELSE {})
                 \cup (IF faiss[file_id] # Absent /\ pkl[file_id] # Absent
                       THEN {"pkl"} ELSE {})]

\* EnhancedDashboardAnalysisAPI._cleanup: unlink each artifact that exists
_cleanup(faiss, pkl, file_id) ==
    [faiss |-> [faiss EXCEPT ![file_id] = Absent],
     pkl |-> [pkl EXCEPT ![file_id] = Absent],
     deleted |-> (IF faiss[file_id] # Absent THEN {"faiss"} ELSE {})
                 \cup (IF pkl[file_id] # Absent THEN {"pkl"} ELSE {})]

\* ------------------------------------------------------------ PandasEngine
\* The frames of csv_ingestion.dataframes are the tables of the section
\* above.  A float is an exact fraction [num, den] or NotANumber.

\* the number a numeric cell holds
Num(cell) == IF cell = "0" THEN 0 ELSE IF cell = "1" THEN 1 ELSE IF cell = "2" THEN 2 ELSE 3

\* the cell values in Python's order of the values of one column:
\* numbers by value, strings by code point (digits before letters)
CellOrder == <<"0", "1", "2", "3", "x", "y">>
Rank(cell) == CHOOSE i \in 1..Len(CellOrder) : CellOrder[i] = cell

\* column in df.columns
HasColumn(df, column) == \E c \in 1..Len(df.columns) : df.columns[c] = column
ColIdx(df, column) == CHOOSE c \in 1..Len(df.columns) : df.columns[c] = column

\* df[column]: the cells of the column, by row
Column(df, column) == [n \in 1..Len(df.rows) |-> df.rows[n][ColIdx(df, column)]]

\* the dtype of df[column] is int64 or float64
NumericColumn(df, column) == is_numeric_dtype(df, ColIdx(df, column))

\* an object column holding at least one string
HasStrings(df, column) ==
    /\ ~NumericColumn(df, column)
    /\ \E n \in 1..Len(df.rows) : df.rows[n][ColIdx(df, column)] # NaN

\* frame.head(n) / list[:n] for n >= 0
head(seq, n) == SubSeq(seq, 1, Min(n, Len(seq)))

\* the positions of the rows holding the value v, in their order in df
Positions(cells, v) == SelectSeq([n \in 1..Len(cells) |-> n], LAMBDA n : cells[n] = v)

RECURSIVE SortFrom(_, _, _)
\* the rows holding the i-th value of the order and the values after it,
\* then the rows of missing value
SortFrom(cells, i, ascending) ==
    IF i > Len(CellOrder) THEN Positions(cells, NaN)
    ELSE Positions(cells, CellOrder[IF ascending THEN i ELSE Len(CellOrder) + 1 - i])
         \o SortFrom(cells, i + 1, ascending)

\* df.sort_values(by=column, ascending=ascending): the rows' positions in
\* df, in sorted order, rows of equal value in their order in df and rows
\* of missing value last
sort_values(df, column, ascending) == SortFrom(Column(df, column), 1, ascending)

\* df.nlargest(n, column): the positions of the n rows of largest value
nlargest(df, n, column) == head(sort_values(df, column, FALSE), n)

\* frame.to_dict('records') of the rows at the positions `order`
Records(df, order) == [i \in 1..Len(order) |-> df.rows[order[i]]]
\* frame.index.tolist() of the rows at the positions `order`
Index(order) == [i \in 1..Len(order) |-> order[i] - 1]
\* frame[column].tolist() of the rows at the positions `order`
ValuesAt(df, column, order) == [i \in 1..Len(order) |-> Column(df, column)[order[i]]]

\* series.max(): the largest value present, missing when there is none
SeriesMax(cells) ==
    IF \A n \in 1..Len(cells) : cells[n] = NaN THEN NaN
    ELSE LET n == CHOOSE i \in 1..Len(cells) :
                    /\ cells[i] # NaN
                    /\ \A j \in 1..Len(cells) : cells[j] # NaN => Rank(cells[j]) <= Rank(cells[i])
         IN  cells[n]

\* ---- floats
NotANumber == [nan |-> TRUE]

RECURSIVE GCD(_, _)
GCD(a, b) == IF b = 0 THEN a ELSE GCD(b, a % b)

Abs(a) == IF a < 0 THEN 0 - a ELSE a

\* the fraction n / d for d # 0, in lowest terms with a positive denominator
Frac(n, d) ==
    LET g == GCD(Abs(n), Abs(d))
        s == IF d < 0 THEN -1 ELSE 1
    IN  [num |-> (s * n) \div g, den |-> (s * d) \div g]

\* series.sum(): missing cells are skipped
SumCells(cells) ==
    Cardinality({n \in 1..Len(cells) : cells[n] = "1"})
    + 2 * Cardinality({n \in 1..Len(cells) : cells[n] = "2"})
    + 3 * Cardinality({n \in 1..Len(cells) : cells[n] = "3"})

\* float(series.mean()) of a numeric column: missing cells are skipped
Mean(cells) ==
    LET count == Cardinality({n \in 1..Len(cells) : cells[n] # NaN})
    IN  IF count = 0 THEN NotANumber ELSE Frac(SumCells(cells), count)

\* a mutation of the subtraction that takes b - a
FSubMutReversed(a, b) ==
    IF a = NotANumber \/ b = NotANumber THEN NotANumber
    ELSE Frac(b.num * a.den - a.num * b.den, a.den * b.den)

\* a - b
FSub(a, b) ==
    IF a = NotANumber \/ b = NotANumber THEN NotANumber
    ELSE Frac(a.num * b.den - b.num * a.den, a.den * b.den)

\* a / b * 100 for b # 0
FPercent(a, b) ==
    IF a = NotANumber \/ b = NotANumber THEN NotANumber
    ELSE Frac(a.num * b.den * 100, a.den * b.num)

Zero == Frac(0, 1)

\* ---- the five operations.  Each yields whether it raised, the source
\* it read, its result_table and numbers, and csv_ingestion.dataframes
\* as the call leaves it.
\* message is str(e) of the exception, one text for all raise sites of
\* the engine
EngineError(dfs) == [raised |-> TRUE, message |-> "engine error", dataframes |-> dfs]

\* a mutation of the default source that takes the latest key
SourceMutLatest(dfs, file_id) == IF file_id # None THEN file_id ELSE DictKeys(dfs)[Len(dfs)]

\* params.file_id or list(csv_ingestion.dataframes.keys())[0]
SourceOf(dfs, file_id) == IF file_id # None THEN file_id ELSE DictKeys(dfs)[1]

\* the source can be named (no IndexError) and csv_ingestion.get_dataframe
\* finds it (no ValueError)
Readable(dfs, file_id) ==
    /\ file_id # None \/ dfs # <<>>
    /\ DictHas(dfs, SourceOf(dfs, file_id))

get_dataframe(dfs, file_id) == DictGet(dfs, file_id).df

\* the operators of filter_threshold
Operators == {">", "<", ">=", "<=", "==", "!="}

\* a mutation of the comparison that lets '>' keep equal values
MatchesMutInclusive(cell, operator, value, numeric) ==
    IF cell = NaN \/ ~numeric THEN operator = "!="
    ELSE IF operator = "!=" THEN Num(cell) # value ELSE Num(cell) >= value

\* one element of df[column] <op> value
Matches(cell, operator, value, numeric) ==
    IF cell = NaN \/ ~numeric THEN operator = "!="
    ELSE CASE operator = ">" -> Num(cell) > value
           [] operator = "<" -> Num(cell) < value
           [] operator = ">=" -> Num(cell) >= value
           [] operator = "<=" -> Num(cell) <= value
           [] operator = "==" -> Num(cell) = value
           [] OTHER -> Num(cell) # value

\* PandasEngine.filter_threshold
filter_threshold(dfs, column, operator, value, file_id) ==
    IF ~Readable(dfs, file_id) THEN EngineError(dfs)
    ELSE LET source == SourceOf(dfs, file_id)
             df == get_dataframe(dfs, source)
         IN  IF ~HasColumn(df, column) THEN EngineError(dfs)
             ELSE IF operator \notin Operators THEN EngineError(dfs)
             ELSE IF operator \notin {"==", "!="} /\ HasStrings(df, column)
             THEN EngineError(dfs)
             ELSE LET cells == Column(df, column)
                      numeric == NumericColumn(df, column)
                      \* df[df[column] <op> value]: the positions of the rows kept
                      filtered == SelectSeq([n \in 1..Len(cells) |-> n], LAMBDA n :
                                      Matches(cells[n], operator, value, numeric))
                  IN  [raised |-> FALSE,
                       source |-> source,
                       result_table |-> Records(df, head(filtered, HeadLimit)),
                       numbers |->
                          [total_rows |-> Len(df.rows),
                           filtered_rows |-> Len(filtered),
                           filter_column |-> column,
                           filter_operator |-> operator,
                           filter_value |-> value,
                           percentage_matched |->
                              IF Len(df.rows) > 0
                              THEN Frac(Len(filtered) * 100, Len(df.rows)) ELSE Zero,
                           row_indices |-> head(Index(filtered), HeadLimit)],
                       dataframes |-> dfs]

\* a mutation of sort_data that sorts the stored frame in place
SortMutInPlace(dfs, column, ascending, file_id, limit) ==
    IF ~Readable(dfs, file_id) THEN EngineError(dfs)
    ELSE LET source == SourceOf(dfs, file_id)
             entry == DictGet(dfs, source)
         IN  IF ~HasColumn(entry.df, column) THEN EngineError(dfs)
             ELSE LET order == sort_values(entry.df, column, ascending)
                      sorted == [entry.df EXCEPT !.rows = Records(entry.df, order)]
                  IN  [raised |-> FALSE, source |-> source,
                       result_table |-> Records(entry.df, order),
                       numbers |-> [total_rows |-> Len(order)],
                       dataframes |-> DictSet(dfs, source, [entry EXCEPT !.df = sorted])]

\* PandasEngine.sort_data; limit 0 stands for every falsy limit (None, 0)
sort_data(dfs, column, ascending, file_id, limit) ==
    IF ~Readable(dfs, file_id) THEN EngineError(dfs)
    ELSE LET source == SourceOf(dfs, file_id)
             df == get_dataframe(dfs, source)
         IN  IF ~HasColumn(df, column) THEN EngineError(dfs)
             ELSE LET all == sort_values(df, column, ascending)
                      order == IF limit # 0 THEN head(all, limit) ELSE all
                      values == ValuesAt(df, column, order)
                  IN  [raised |-> FALSE,
                       source |-> source,
                       result_table |-> Records(df, order),
                       numbers |->
                          [total_rows |-> Len(df.rows),
                           returned_rows |-> Len(order),
                           sort_column |-> column,
                           ascending |-> ascending,
                           first_value |-> IF Len(order) > 0 THEN values[1] ELSE None,
                           last_value |-> IF Len(order) > 0 THEN values[Len(order)] ELSE None,
                           row_indices |-> Index(order)],
                       dataframes |-> dfs]

\* a mutation of top_n that keeps the rows in their order in df
TopMutUnsorted(dfs, column, n, ascending, file_id) ==
    IF ~Readable(dfs, file_id) THEN EngineError(dfs)
    ELSE LET source == SourceOf(dfs, file_id)
             df == get_dataframe(dfs, source)
         IN  IF ~HasColumn(df, column) THEN EngineError(dfs)
             ELSE IF HasStrings(df, column) THEN EngineError(dfs)
             ELSE LET order == head([i \in 1..Len(df.rows) |-> i], n)
                      top_values == ValuesAt(df, column, order)
                  IN  [raised |-> FALSE, source |-> source,
                       result_table |-> Records(df, order),
                       numbers |->
                          [n |-> n, column |-> column, top_values |-> top_values,
                           top_indices |-> Index(order),
                           highest_value |-> IF Len(order) > 0 THEN top_values[1] ELSE None,
                           lowest_in_top |->
                              IF Len(order) > 0 THEN top_values[Len(order)] ELSE None,
                           average_of_top |-> Mean(top_values)],
                       dataframes |-> dfs]

\* PandasEngine.top_n; np.mean(top_values) raises on strings
top_n(dfs, column, n, ascending, file_id) ==
    IF ~Readable(dfs, file_id) THEN EngineError(dfs)
    ELSE LET source == SourceOf(dfs, file_id)
             df == get_dataframe(dfs, source)
         IN  IF ~HasColumn(df, column) THEN EngineError(dfs)
             ELSE IF HasStrings(df, column) THEN EngineError(dfs)
             ELSE LET order == head(sort_values(df, column, ascending), n)
                      top_values == ValuesAt(df, column, order)
                  IN  [raised |-> FALSE,
                       source |-> source,
                       result_table |-> Records(df, order),
                       numbers |->
                          [n |-> n,
                           column |-> column,
                           top_values |-> top_values,
                           top_indices |-> Index(order),
                           highest_value |-> IF Len(order) > 0 THEN top_values[1] ELSE None,
                           lowest_in_top |->
                              IF Len(order) > 0 THEN top_values[Len(order)] ELSE None,
                           average_of_top |-> Mean(top_values)],
                       dataframes |-> dfs]

\* the distinct values of the group_by column, in sorted order
GroupKeys(df, group_by) ==
    LET cells == Column(df, group_by)
        order == sort_values(df, group_by, TRUE)
        firsts == SelectSeq(order, LAMBDA p :
                      /\ cells[p] # NaN
                      /\ \A q \in 1..(p - 1) : cells[q] # cells[p])
    IN  [i \in 1..Len(firsts) |-> cells[firsts[i]]]

\* the cells of `column` in the rows whose group_by cell is `group`
GroupCells(df, column, group_by, group) ==
    LET cells == Column(df, column)
        groups == Column(df, group_by)
        rows == SelectSeq([n \in 1..Len(df.rows) |-> n], LAMBDA n : groups[n] = group)
    IN  [i \in 1..Len(rows) |-> cells[rows[i]]]

\* a mutation of compare_averages that looks for the column in the first
\* file only
AveragesMutOneCheck(dfs, column, file1_id, file2_id, group_by) ==
    IF file1_id # None /\ file2_id # None
    THEN IF ~DictHas(dfs, file1_id) \/ ~DictHas(dfs, file2_id) THEN EngineError(dfs)
         ELSE LET df1 == get_dataframe(dfs, file1_id)
              IN  IF ~HasColumn(df1, column) THEN EngineError(dfs)
                  ELSE [raised |-> FALSE, mode |-> "two_files",
                        source |-> file1_id, source2 |-> file2_id,
                        result_table |-> <<>>,
                        numbers |-> [file1_average |-> Mean(Column(df1, column))],
                        dataframes |-> dfs]
    ELSE EngineError(dfs)

\* PandasEngine.compare_averages; series.mean() raises on strings, and
\* std_dev, which is no fraction, is left out of the numbers
compare_averages(dfs, column, file1_id, file2_id, group_by) ==
    IF file1_id # None /\ file2_id # None
    THEN IF ~DictHas(dfs, file1_id) \/ ~DictHas(dfs, file2_id) THEN EngineError(dfs)
         ELSE LET df1 == get_dataframe(dfs, file1_id)
                  df2 == get_dataframe(dfs, file2_id)
              IN  IF ~HasColumn(df1, column) \/ ~HasColumn(df2, column)
                  THEN EngineError(dfs)
                  ELSE IF HasStrings(df1, column) \/ HasStrings(df2, column)
                  THEN EngineError(dfs)
                  ELSE LET avg1 == Mean(Column(df1, column))
                           avg2 == Mean(Column(df2, column))
                           diff == FSub(avg1, avg2)
                           pct_diff == IF avg2 # Zero THEN FPercent(diff, avg2) ELSE Zero
                       IN  [raised |-> FALSE, mode |-> "two_files",
                            source |-> file1_id, source2 |-> file2_id,
                            result_table |->
                               << [file_id |-> file1_id, average |-> avg1],
                                  [file_id |-> file2_id, average |-> avg2] >>,
                            numbers |->
                               [file1_average |-> avg1,
                                file2_average |-> avg2,
                                difference |-> diff,
                                percent_difference |-> pct_diff],
                            dataframes |-> dfs]
    ELSE IF ~Readable(dfs, file1_id) THEN EngineError(dfs)
    ELSE LET source == SourceOf(dfs, file1_id)
             df == get_dataframe(dfs, source)
         IN  IF group_by # None
             THEN IF ~HasColumn(df, column) \/ ~HasColumn(df, group_by)
                  THEN EngineError(dfs)
                  ELSE IF HasStrings(df, column) THEN EngineError(dfs)
                  ELSE LET keys == GroupKeys(df, group_by)
                       IN  [raised |-> FALSE, mode |-> "group_by",
                            source |-> source,
                            result_table |->
                               [i \in 1..Len(keys) |->
                                   [group |-> keys[i],
                                    average |-> Mean(GroupCells(df, column, group_by,
                                                                keys[i]))]],
                            numbers |-> [overall_average |-> Mean(Column(df, column))],
                            dataframes |-> dfs]
             ELSE IF ~HasColumn(df, column) THEN EngineError(dfs)
             ELSE IF HasStrings(df, column) THEN EngineError(dfs)
             ELSE LET cells == Column(df, column)
                      desc == sort_values(df, column, FALSE)
                      asc == sort_values(df, column, TRUE)
                      numbers == [average |-> Mean(cells),
                                  min |-> IF Len(asc) > 0 THEN cells[asc[1]] ELSE NaN,
                                  max |-> IF Len(desc) > 0 THEN cells[desc[1]] ELSE NaN,
                                  count |-> Len(df.rows)]
                  IN  [raised |-> FALSE, mode |-> "single",
                       source |-> source,
                       result_table |->
                          << [metric |-> "average", value |-> numbers.average],
                             [metric |-> "count", value |-> Frac(numbers.count, 1)] >>,
                       numbers |-> numbers,
                       dataframes |-> dfs]

\* PandasEngine.compare_top; nlargest raises on an object column
compare_top(dfs, column, n, file1_id, file2_id) ==
    IF file1_id = None \/ file2_id = None THEN EngineError(dfs)
    ELSE IF ~DictHas(dfs, file1_id) \/ ~DictHas(dfs, file2_id) THEN EngineError(dfs)
    ELSE LET df1 == get_dataframe(dfs, file1_id)
             df2 == get_dataframe(dfs, file2_id)
         IN  IF ~HasColumn(df1, column) \/ ~HasColumn(df2, column) THEN EngineError(dfs)
             ELSE IF ~NumericColumn(df1, column) \/ ~NumericColumn(df2, column)
             THEN EngineError(dfs)
             ELSE LET top1 == nlargest(df1, n, column)
                      top2 == nlargest(df2, n, column)
                      values1 == ValuesAt(df1, column, top1)
                      values2 == ValuesAt(df2, column, top2)
                  IN  [raised |-> FALSE,
                       source |-> file1_id, source2 |-> file2_id,
                       result_table |->
                          [i \in 1..n |->
                              [rank |-> i,
                               file1 |-> IF i <= Len(top1)
                                         THEN <<values1[i], top1[i] - 1>> ELSE <<>>,
                               file2 |-> IF i <= Len(top2)
                                         THEN <<values2[i], top2[i] - 1>> ELSE <<>>]],
                       numbers |->
                          [n |-> n,
                           column |-> column,
                           file1_top_values |-> values1,
                           file2_top_values |-> values2,
                           file1_average |-> Mean(values1),
                           file2_average |-> Mean(values2),
                           file1_max |-> SeriesMax(values1),
                           file2_max |-> SeriesMax(values2)],
                       dataframes |-> dfs]

\* ----------------------------------------------------------- AnalyticalAgent
\* settings.SUPPORTED_INTENTS
SUPPORTED_INTENTS ==
    {"compare_averages", "filter_threshold", "sort", "top_n", "compare_top", "explain_row"}

\* what gemini_client.parse_intent can come back with: the service or
\* json.loads raising, or a parsed answer with its "intent" and "parameters"
NonJson == [json |-> FALSE]
Answer(intent, parameters) == [json |-> TRUE, intent |-> intent, parameters |-> parameters]

\* AnalyticalAgent._explain_row
_explain_row(dfs, mstores, faiss, pkl, parameters) ==
    IF parameters.file_id = None /\ dfs = <<>>
    THEN [raised |-> TRUE, stores |-> mstores]
    ELSE LET file_id == SourceOf(dfs, parameters.file_id)
             got == get_store(mstores, faiss, pkl, file_id)
         IN  IF got.store = Absent THEN [raised |-> TRUE, stores |-> got.stores]
             ELSE LET query_vector == generate_embedding(parameters.query, FALSE)
                      results == search(got.store, query_vector, parameters.top_k, file_id)
                      rows == SelectSeq(results, LAMBDA r : got.store.metadata[r[1]].is_row_vector)
                  IN  IF ~DictHas(dfs, file_id) THEN [raised |-> TRUE, stores |-> got.stores]
                      ELSE IF \E i \in 1..Len(rows) :
                                 got.store.metadata[rows[i][1]].row_idx
                                    >= Len(get_dataframe(dfs, file_id).rows)
                      THEN [raised |-> TRUE, stores |-> got.stores]
                      ELSE [raised |-> FALSE, stores |-> got.stores,
                            result_table |->
                               [i \in 1..Len(rows) |->
                                   get_dataframe(dfs, file_id).rows[
                                       got.store.metadata[rows[i][1]].row_idx + 1]],
                            numbers |->
                               [top_k |-> parameters.top_k,
                                row_indices |->
                                   [i \in 1..Len(rows) |->
                                       got.store.metadata[rows[i][1]].row_idx],
                                file_id |-> file_id]]

\* AnalyticalAgent._execute_intent for the intents of the engine
_execute_intent(dfs, intent, p) ==
    CASE intent = "compare_averages" ->
            compare_averages(dfs, p.column, p.file1_id, p.file2_id, p.group_by)
      [] intent = "filter_threshold" ->
            filter_threshold(dfs, p.column, p.operator, p.value, p.file_id)
      [] intent = "sort" ->
            sort_data(dfs, p.column, p.ascending, p.file_id, p.limit)
      [] intent = "top_n" ->
            top_n(dfs, p.column, p.n, p.ascending, p.file_id)
      [] OTHER ->
            compare_top(dfs, p.column, p.n, p.file1_id, p.file2_id)

\* a mutation of the error payload that forgets the exception's message
OutcomeMutGeneric(error, details, calls, dfs, mstores) ==
    [raised |-> FALSE, error |-> error,
     details |-> IF error = "execution_error" THEN "error" ELSE details,
     calls |-> calls, dataframes |-> dfs, stores |-> mstores]

\* what process_query does: whether an exception leaves it, the
\* ErrorResponse (error, details) or result dict (error "none") it
\* returns, the calls it made on the way and the registries as it leaves
\* them
Outcome(error, details, calls, dfs, mstores) ==
    [raised |-> FALSE, error |-> error, details |-> details,
     calls |-> calls, dataframes |-> dfs, stores |-> mstores]

\* AnalyticalAgent.process_query, the whole of which is one try block
\* whose except clause returns ErrorResponse("execution_error", str(e)).
\* llm is what the language model service does when called: whether
\* enhance_prompt and generate_narrative raise and what parse_intent comes
\* back with.  Settings defines no ENABLE_GENERAL_QUERY_FALLBACK, so
\* reading it for an intent outside SUPPORTED_INTENTS raises
\* AttributeError.
process_query(dfs, docs, mstores, faiss, pkl, enhance_prompt, llm) ==
    LET enhance_fails == llm.enhance_fails
        response == llm.response
        narrative_fails == llm.narrative_fails
        c1 == IF enhance_prompt THEN <<"enhance_prompt">> ELSE <<>>
        c2 == Append(c1, "parse_intent")
    IN  IF enhance_prompt /\ enhance_fails
        THEN Outcome("execution_error", "service error", c1, dfs, mstores)
        ELSE IF dfs = <<>> /\ docs = <<>>
        THEN Outcome("no_data", "No CSV or document files have been loaded", c1, dfs, mstores)
        ELSE IF ~response.json
        THEN Outcome("execution_error", "Expecting value", c2, dfs, mstores)
        ELSE IF response.intent \notin SUPPORTED_INTENTS
        THEN Outcome("execution_error", "no attribute ENABLE_GENERAL_QUERY_FALLBACK", c2, dfs, mstores)
        ELSE IF response.intent = "explain_row"
        THEN LET r == _explain_row(dfs, mstores, faiss, pkl, response.parameters)
                 c3 == Append(c2, "_explain_row")
                 c4 == Append(c3, "generate_narrative")
             IN  IF r.raised
                 THEN Outcome("execution_error", "explain_row error", c3, dfs, r.stores)
                 ELSE IF narrative_fails
                 THEN Outcome("execution_error", "service error", c4, dfs, r.stores)
                 ELSE Outcome("none", None, c4, dfs, r.stores)
        ELSE LET r == _execute_intent(dfs, response.intent, response.parameters)
                 c3 == Append(c2, "pandas_engine")
                 c4 == Append(c3, "generate_narrative")
             IN  IF r.raised
                 THEN Outcome("execution_error", r.message, c3, r.dataframes, mstores)
                 ELSE IF narrative_fails
                 THEN Outcome("execution_error", "service error", c4, r.dataframes, mstores)
                 ELSE Outcome("none", None, c4, r.dataframes, mstores)

\* ----------------------------------------------------------------- state
VARIABLES
    vstore,       \* a VectorStore used on its own (add_vectors / search)
    adds,         \* add_vectors calls made on vstore
    stores,       \* VectorStoreManager.stores: file_id -> VectorStore
    disk_faiss,   \* VECTOR_DIR/<file_id>.faiss
    disk_pkl,     \* VECTOR_DIR/<file_id>_metadata.pkl
    dataframes,   \* CSVIngestion.dataframes (with file_metadata), in insertion order
    documents,    \* DocumentIngestion.documents (with metadata and chunks), in insertion order
    ret           \* what the last call returned or raised

vars == <<vstore, adds, stores, disk_faiss, disk_pkl, dataframes, documents, ret>>

managerVars == <<stores, disk_faiss, disk_pkl, dataframes, documents>>

\* ------------------------------------------------ inputs of the lone store
\* embeddings handed to add_vectors and query vectors handed to search
Queries == {Vec(2, 0), Vec(0, 1)}

\* a VectorMetadata entry for file f
UnitMeta(f) ==
    [file_id |-> f, row_idx |-> 0, column_name |-> None,
     is_row_vector |-> TRUE, original_text |-> <<"t">>]

Copies(n, x) == [i \in 1..n |-> x]

\* batch sizes tried: empty, one row, a large batch
BatchSizes == {0, 1, MaxBatch}
\* vectors handed to the lone store, and the k values asked of it
AddVecs == {Vec(1, 0), Vec(0, 2), WideVec(1, 0)}
SearchKs == {0, 1, MaxK}

\* store.add_vectors(vectors, metadata) on the lone store: n rows of the
\* vector v, m metadata entries of file f
StoreAdd ==
    /\ adds < MaxAdds
    /\ \E v \in AddVecs, n \in BatchSizes, f \in Ids :
       \E m \in {n, n + 1} :
          LET r == add_vectors(vstore, Copies(n, v), Len(v), Copies(m, UnitMeta(f)))
          IN  /\ vstore' = r.store
              /\ ret' = [op |-> "add_vectors", raised |-> r.raised,
                         nvec |-> n, nmeta |-> m, width |-> Len(v)]
    /\ adds' = adds + 1
    /\ UNCHANGED managerVars

\* store.search(query_vector, k, file_id) on the lone store
StoreSearch ==
    /\ \E q \in Queries, k \in SearchKs, f \in Ids \cup {None} :
          ret' = [op |-> "search", query |-> q, k |-> k, file_id |-> f,
                  results |-> search(vstore, q, k, f)]
    /\ UNCHANGED <<vstore, adds>>
    /\ UNCHANGED managerVars

\* ------------------------------------------------------- manager-level calls
\* the file_id the ingestions, the manager calls and the cleanup are given
FileIds == {"A"}

\* csv_ingestion.ingest_csv(filepath, file_id, vectorize)
IngestCsv(f) ==
    \E df \in CsvFiles, vectorize \in BOOLEAN, wide \in BOOLEAN :
    \E fail_at \in 0..Len(CsvTexts(df)) :
       LET meta == analyze_dataframe(df, f)
           v == _vectorize_dataframe(stores, disk_faiss, disk_pkl, df, f, fail_at, wide)
       IN  /\ dataframes' = DictSet(dataframes, f, [df |-> df, metadata |-> meta])
           /\ IF vectorize
              THEN /\ stores' = v.stores
                   /\ disk_faiss' = v.faiss
                   /\ disk_pkl' = v.pkl
                   /\ ret' = [op |-> "ingest_csv", file_id |-> f,
                              vectorize |-> TRUE, raised |-> v.raised]
              ELSE /\ UNCHANGED <<stores, disk_faiss, disk_pkl>>
                   /\ ret' = [op |-> "ingest_csv", file_id |-> f,
                              vectorize |-> FALSE, raised |-> FALSE]
           /\ UNCHANGED <<documents, vstore, adds>>

\* document_ingestion.ingest_document(filepath, file_id, vectorize)
IngestDocument(f) ==
    \E doc \in DocFiles, vectorize \in BOOLEAN, wide \in BOOLEAN :
       LET entry == DocEntry(doc, f)
       IN  \E fail_at \in 0..Len(DocTexts(entry.chunks, entry.qa_pairs)) :
           LET v == _vectorize_document(stores, disk_faiss, disk_pkl, entry.chunks,
                                        entry.qa_pairs, f, fail_at, wide)
           IN  /\ documents' = DictSet(documents, f, entry)
               /\ IF vectorize
                  THEN /\ stores' = v.stores
                       /\ disk_faiss' = v.faiss
                       /\ disk_pkl' = v.pkl
                       /\ ret' = [op |-> "ingest_document", file_id |-> f,
                                  vectorize |-> TRUE, raised |-> v.raised]
                  ELSE /\ UNCHANGED <<stores, disk_faiss, disk_pkl>>
                       /\ ret' = [op |-> "ingest_document", file_id |-> f,
                                  vectorize |-> FALSE, raised |-> FALSE]
               /\ UNCHANGED <<dataframes, vstore, adds>>

\* vector_store_manager.create_store(file_id)
CreateStore(f) ==
       /\ stores' = create_store(stores, f)
       /\ ret' = [op |-> "create_store", file_id |-> f, raised |-> FALSE,
                  existed |-> stores[f] # Absent]
       /\ UNCHANGED <<disk_faiss, disk_pkl, dataframes, documents, vstore, adds>>

\* vector_store_manager.save_store(file_id)
SaveStore(f) ==
       /\ IF stores[f] # Absent
          THEN /\ disk_faiss' = [disk_faiss EXCEPT ![f] = save(stores[f]).faiss]
               /\ disk_pkl' = [disk_pkl EXCEPT ![f] = save(stores[f]).pkl]
          ELSE UNCHANGED <<disk_faiss, disk_pkl>>
       /\ ret' = [op |-> "save_store", file_id |-> f, saved |-> stores[f] # Absent]
       /\ UNCHANGED <<stores, dataframes, documents, vstore, adds>>

\* vector_store_manager.get_store(file_id)
GetStore(f) ==
       LET got == get_store(stores, disk_faiss, disk_pkl, f)
       IN  /\ stores' = got.stores
           /\ ret' = [op |-> "get_store", file_id |-> f, found |-> got.store # Absent]
           /\ UNCHANGED <<disk_faiss, disk_pkl, dataframes, documents, vstore, adds>>

\* vector_store_manager.list_stores()
ListStores ==
    /\ ret' = [op |-> "list_stores", file_ids |-> list_stores(stores, disk_faiss)]
    /\ UNCHANGED <<stores, disk_faiss, disk_pkl, dataframes, documents, vstore, adds>>

\* document_ingestion.search_document(query, file_id, top_k)
SearchDocument(f) ==
    \E q \in Queries, top_k \in 1..MaxK :
       LET r == search_document(documents, stores, disk_faiss, disk_pkl, q, f, top_k)
       IN  /\ stores' = r.stores
           /\ ret' = [op |-> "search_document", file_id |-> f, query |-> q,
                      top_k |-> top_k, raised |-> r.raised, results |-> r.results,
                      loaded |-> {g \in Ids : stores[g] = Absent /\ r.stores[g] # Absent}]
           /\ UNCHANGED <<disk_faiss, disk_pkl, dataframes, documents, vstore, adds>>

\* dashboard_api._cleanup(file_id)
Cleanup(f) ==
       LET c == _cleanup(disk_faiss, disk_pkl, f)
       IN  /\ disk_faiss' = c.faiss
           /\ disk_pkl' = c.pkl
           /\ ret' = [op |-> "_cleanup", file_id |-> f, raised |-> FALSE,
                      deleted |-> c.deleted]
           /\ UNCHANGED <<stores, dataframes, documents, vstore, adds>>

\* ------------------------------------------------------------ batch upload
\* the file_ids generate_file_id hands out, one per ingestion
UploadIds == <<"A", "B">>

\* csv_ingestion.ingest_csv(filepath, vectorize=True): whether it raised and
\* the registries and artifacts as it leaves them
ingest_csv(st, df, file_id, service) ==
    LET v == _vectorize_dataframe(st.stores, st.faiss, st.pkl, df, file_id,
                                  IF service = "fails" THEN 1 ELSE 0, service = "wide")
    IN  [raised |-> v.raised,
         state |-> [st EXCEPT
                      !.dataframes = DictSet(@, file_id,
                                             [df |-> df,
                                              metadata |-> analyze_dataframe(df, file_id)]),
                      !.stores = v.stores, !.faiss = v.faiss, !.pkl = v.pkl]]

\* document_ingestion.ingest_document(filepath, vectorize=True)
ingest_document(st, doc, file_id, service) ==
    LET entry == DocEntry(doc, file_id)
        v == _vectorize_document(st.stores, st.faiss, st.pkl, entry.chunks,
                                 entry.qa_pairs, file_id,
                                 IF service = "fails" THEN 1 ELSE 0, service = "wide")
    IN  [raised |-> v.raised,
         state |-> [st EXCEPT
                      !.documents = DictSet(@, file_id, entry),
                      !.stores = v.stores, !.faiss = v.faiss, !.pkl = v.pkl]]

\* load_csv_file(uploaded_file, clean_data): the table is what read_csv and
\* the optional cleaning make of the upload, [unreadable |-> TRUE] being a
\* file pd.read_csv cannot parse; any exception becomes an error result
load_csv_file(st, upload, file_id) ==
    IF upload.content = [unreadable |-> TRUE]
    THEN [state |-> st, result |-> [name |-> upload.name, status |-> "error", type |-> "csv"]]
    ELSE LET r == ingest_csv(st, upload.content, file_id, upload.service)
         IN  [state |-> r.state,
              result |-> IF r.raised
                         THEN [name |-> upload.name, status |-> "error", type |-> "csv"]
                         ELSE [name |-> upload.name, status |-> "success", type |-> "csv",
                               file_id |-> file_id]]

\* load_document_file(uploaded_file)
load_document_file(st, upload, file_id) ==
    LET r == ingest_document(st, upload.content, file_id, upload.service)
    IN  [state |-> r.state,
         result |-> IF r.raised
                    THEN [name |-> upload.name, status |-> "error", type |-> "document"]
                    ELSE [name |-> upload.name, status |-> "success", type |-> "document",
                          file_id |-> file_id]]

RECURSIVE LoadLoop(_, _, _, _, _)
\* the loop of main over the uploaded files from position i on, appending
\* one result per file to the session's list
LoadLoop(uploads, i, st, loaded, type) ==
    IF i > Len(uploads) THEN [state |-> st, loaded |-> loaded]
    ELSE LET r == IF type = "csv" THEN load_csv_file(st, uploads[i], UploadIds[i])
                  ELSE load_document_file(st, uploads[i], UploadIds[i])
         IN  LoadLoop(uploads, i + 1, r.state, Append(loaded, r.result), type)

\* a mutation of the batch in which the first failure ends the loop
LoadMutAbort(uploads, st, type) ==
    LET r == LoadLoop(uploads, 1, st, <<>>, type)
        bad == {i \in 1..Len(r.loaded) : r.loaded[i].status = "error"}
        stop == IF bad = {} THEN Len(r.loaded)
                ELSE CHOOSE i \in bad : \A j \in bad : i <= j
    IN  LoadLoop(SubSeq(uploads, 1, stop), 1, st, <<>>, type)

\* main: the "Load CSV Files" / "Load Documents" button
LoadFiles(uploads, st, type) == LoadLoop(uploads, 1, st, <<>>, type)

\* the batches tried: one file per file_id at most, each with the name
\* of its position, its content and what the embedding service does
\* while it is ingested ("fails": call number 1 raises, "wide": the
\* vectors have another width)
Batches(contents) ==
    { batch \in UNION { [1..n -> [name : 1..n, content : contents,
                                  service : {"ok", "fails", "wide"}]] :
                        n \in 1..Len(UploadIds) } :
        \A i \in 1..Len(batch) : batch[i].name = i }

\* the registries and artifacts as one record
Registries ==
    [dataframes |-> dataframes, documents |-> documents, stores |-> stores,
     faiss |-> disk_faiss, pkl |-> disk_pkl]

\* one press of an upload button in a fresh session
Upload(type, contents) ==
    /\ ret.op = "init"
    /\ \E batch \in Batches(contents) :
          LET r == LoadFiles(batch, Registries, type)
          IN  /\ dataframes' = r.state.dataframes
              /\ documents' = r.state.documents
              /\ stores' = r.state.stores
              /\ disk_faiss' = r.state.faiss
              /\ disk_pkl' = r.state.pkl
              /\ ret' = [op |-> "upload", type |-> type, uploads |-> batch,
                         loaded |-> r.loaded]
    /\ UNCHANGED <<vstore, adds>>

LoadCsvFiles == Upload("csv", CsvFiles \cup {[unreadable |-> TRUE]})

LoadDocuments == Upload("document", DocFiles)

\* ------------------------------------------------------ dashboard analysis
\* most prompts of one analysis the language model service fails on,
\* unless it is down for all of them
MaxFailures == 2

\* top_k of the document query made for each prompt
DashboardTopK == 3

\* the sections of the results, in the order analyze_bearing_docx runs
\* their prompts
Sections == <<"observations", "analysis", "motor_assessment", "pump_assessment">>

\* the prompts _get_observation_prompts, _get_analysis_prompts and
\* _get_equipment_assessment_prompts (motor, pump) return, one list after
\* the other; a prompt id is unique within its section
Prompts ==
    [n \in 1..8 |-> [section |-> Sections[1], id |-> <<"OBS", n>>]]
    \o [n \in 1..8 |-> [section |-> Sections[2], id |-> <<"ANALYSIS", n>>]]
    \o [n \in 1..4 |-> [section |-> Sections[3], id |-> <<"MOTOR", n>>]]
    \o [n \in 1..4 |-> [section |-> Sections[4], id |-> <<"PUMP", n>>]]

\* AnalyticalAgent._handle_document_query as analyze_bearing_docx calls it:
\* search_document for the file_id, then answer_document_query, which
\* raises when the service fails
_handle_document_query(docs, mstores, faiss, pkl, query_vector, file_id, top_k, llm_fails) ==
    LET found == search_document(docs, mstores, faiss, pkl, query_vector, file_id, top_k)
    IN  [raised |-> found.raised \/ llm_fails,
         stores |-> found.stores,
         num_results |-> Len(found.results)]

\* a mutation of the per-prompt bookkeeping that keeps no entry for a
\* prompt that failed
RecordMutSkipFailed(entries, prompt, raised) ==
    IF raised THEN entries
    ELSE DictSet(entries, prompt.id, [section |-> prompt.section, status |-> "success"])

\* results[section][prompt_id] = {...} in the try block or in its except
\* clause
RecordPrompt(entries, prompt, raised) ==
    DictSet(entries, prompt.id,
            [section |-> prompt.section,
             status |-> IF raised THEN "failed" ELSE "success"])

\* analyze_bearing_docx, step 1: ingest the document with vectors; an
\* exception ends the analysis with success = False
StartAnalysis ==
    /\ ret.op = "init"
    /\ \E doc \in DocFiles, service \in {"ok", "fails", "wide"}, outage \in BOOLEAN :
          LET r == ingest_document(Registries, doc, UploadIds[1], service)
          IN  /\ documents' = r.state.documents
              /\ stores' = r.state.stores
              /\ disk_faiss' = r.state.faiss
              /\ disk_pkl' = r.state.pkl
              /\ ret' = IF r.raised
                         THEN [op |-> "analyze_bearing_docx", pc |-> 0,
                               returned |-> TRUE, success |-> FALSE]
                         ELSE [op |-> "analyze_bearing_docx", pc |-> 1,
                               returned |-> FALSE, file_id |-> UploadIds[1], outage |-> outage,
                               failed |-> {}, entries |-> <<>>,
                               status |-> "in_progress"]
    /\ UNCHANGED <<dataframes, vstore, adds>>

\* steps 4 to 7: the next prompt of the four loops
RunPrompt ==
    /\ ret.op = "analyze_bearing_docx"
    /\ ret.pc \in 1..Len(Prompts)
    /\ \E q \in Queries, llm_fails \in BOOLEAN :
          /\ llm_fails => ret.outage \/ Cardinality(ret.failed) < MaxFailures
          /\ ~llm_fails => ~ret.outage
          /\ LET r == _handle_document_query(documents, stores, disk_faiss, disk_pkl,
                                              q, ret.file_id, DashboardTopK, llm_fails)
             IN  /\ stores' = r.stores
                 /\ ret' = [ret EXCEPT
                               !.pc = @ + 1,
                               !.failed = IF r.raised THEN @ \cup {ret.pc} ELSE @,
                               !.entries = RecordPrompt(@, Prompts[ret.pc], r.raised)]
    /\ UNCHANGED <<disk_faiss, disk_pkl, dataframes, documents, vstore, adds>>

\* steps 8 and 9: _cleanup, the counts and the return
FinishAnalysis ==
    /\ ret.op = "analyze_bearing_docx"
    /\ ret.pc = Len(Prompts) + 1
    /\ ~ret.returned
    /\ LET c == _cleanup(disk_faiss, disk_pkl, ret.file_id)
       IN  /\ disk_faiss' = c.faiss
           /\ disk_pkl' = c.pkl
    /\ ret' = [op |-> "analyze_bearing_docx", pc |-> ret.pc, returned |-> TRUE,
               success |-> TRUE,
               file_id |-> ret.file_id, failed |-> ret.failed, entries |-> ret.entries,
               status |-> "complete",
               counts |->
                  [k \in 1..Len(Sections) |->
                      Cardinality({ i \in 1..Len(ret.entries) :
                                      /\ ret.entries[i].val.section = Sections[k]
                                      /\ ret.entries[i].val.status = "success" })]]
    /\ UNCHANGED <<stores, dataframes, documents, vstore, adds>>

\* ------------------------------------------------------ inputs of chunk_text
\* most lines of a text handed to chunk_text
MaxParas == 3

\* the texts tried: text.split('\n') has at least one line; a line is
\* blank or a paragraph of one, two or three words
Texts ==
    UNION { [1..n -> { <<>>, <<"a">>, <<"b", "c">>, <<"d", "e", "f">> }] :
            n \in 1..MaxParas }

\* document_ingestion.chunk_text(text, chunk_size, overlap)
ChunkText ==
    /\ ret.op = "init"
    /\ \E lines \in Texts, chunk_size \in {CHUNK_SIZE - 1, CHUNK_SIZE},
          overlap \in {OVERLAP, 2 * OVERLAP} :
          ret' = [op |-> "chunk_text", lines |-> lines, chunk_size |-> chunk_size,
                  overlap |-> overlap,
                  chunks |-> chunk_text(lines, chunk_size, overlap)]
    /\ UNCHANGED <<stores, disk_faiss, disk_pkl, dataframes, documents, vstore, adds>>

\* -------------------------------------------- inputs of the engine and agent
\* the tables behind the file paths handed to ingest_csv
Priced ==
    [columns |-> <<"price", "name">>,
     rows |-> << <<"2", "x">>, <<"3", "y">>, <<NaN, "x">>, <<"3", "x">>, <<"1", NaN>> >>]
Zeros == [columns |-> <<"price">>, rows |-> << <<"0">>, <<"0">> >>]
Blank == [columns |-> <<"price">>, rows |-> << <<NaN>> >>]
Unpriced == [columns |-> <<"name">>, rows |-> << <<"y">>, <<"x">> >>]
\* more rows above the threshold 2 than the engine lists
Long ==
    [columns |-> <<"price">>,
     rows |-> [n \in 1..(HeadLimit + 2) |-> IF n = 1 THEN <<"0">> ELSE <<"3">>]]

\* the tables ingested under each file id
EngineFiles(f) == IF f = "A" THEN {Priced, Unpriced, Long} ELSE {Priced, Zeros, Blank}

\* columns, thresholds and row counts asked of the engine
EngineColumns == {"price", "name", "zzz"}
Thresholds == {0, MaxValue}
TopCounts == {1, MaxTopN}
\* "~" is an operator outside the closed set
FilterOperators == {">", "!=", "~"}

\* csv_ingestion.ingest_csv(filepath, file_id, vectorize=False)
LoadCsv(f) ==
    /\ \E df \in EngineFiles(f) :
          dataframes' = DictSet(dataframes, f,
                                [df |-> df, metadata |-> analyze_dataframe(df, f)])
    /\ ret' = [op |-> "ingest_csv", file_id |-> f, vectorize |-> FALSE, raised |-> FALSE]
    /\ UNCHANGED <<stores, disk_faiss, disk_pkl, documents, vstore, adds>>

\* what the caller of an engine operation gets back
Returned(r) == [x \in (DOMAIN r) \ {"dataframes"} |-> r[x]]

\* pandas_engine.filter_threshold(FilterThresholdParams(...))
FilterThreshold ==
    /\ \E column \in EngineColumns, operator \in FilterOperators,
          value \in Thresholds, file_id \in {None, "B"} :
          LET r == filter_threshold(dataframes, column, operator, value, file_id)
          IN  /\ dataframes' = r.dataframes
              /\ ret' = [op |-> "filter_threshold", column |-> column,
                         operator |-> operator, value |-> value,
                         file_id |-> file_id, out |-> Returned(r)]
    /\ UNCHANGED <<stores, disk_faiss, disk_pkl, documents, vstore, adds>>

\* pandas_engine.sort_data(SortParams(...))
SortData ==
    /\ \E column \in EngineColumns, ascending \in BOOLEAN,
          file_id \in {None, "B"}, limit \in {0, 1} :
          LET r == sort_data(dataframes, column, ascending, file_id, limit)
          IN  /\ dataframes' = r.dataframes
              /\ ret' = [op |-> "sort_data", column |-> column,
                         ascending |-> ascending, file_id |-> file_id,
                         limit |-> limit, out |-> Returned(r)]
    /\ UNCHANGED <<stores, disk_faiss, disk_pkl, documents, vstore, adds>>

\* pandas_engine.top_n(TopNParams(...)); the params class admits n > 0 only
TopN ==
    /\ \E column \in EngineColumns, n \in TopCounts, ascending \in BOOLEAN,
          file_id \in {None, "B"} :
          LET r == top_n(dataframes, column, n, ascending, file_id)
          IN  /\ dataframes' = r.dataframes
              /\ ret' = [op |-> "top_n", column |-> column, n |-> n,
                         ascending |-> ascending, file_id |-> file_id,
                         out |-> Returned(r)]
    /\ UNCHANGED <<stores, disk_faiss, disk_pkl, documents, vstore, adds>>

\* the file1_id, file2_id, group_by combinations tried
AverageModes ==
    { <<"A", "B", None>>, <<"B", "A", None>>, <<None, "B", None>>,
      <<None, None, "name">>, <<None, None, None>> }

\* pandas_engine.compare_averages(CompareAveragesParams(...))
CompareAverages ==
    /\ \E column \in EngineColumns, mode \in AverageModes :
          LET r == compare_averages(dataframes, column, mode[1], mode[2], mode[3])
          IN  /\ dataframes' = r.dataframes
              /\ ret' = [op |-> "compare_averages", column |-> column,
                         file1_id |-> mode[1], file2_id |-> mode[2],
                         group_by |-> mode[3], out |-> Returned(r)]
    /\ UNCHANGED <<stores, disk_faiss, disk_pkl, documents, vstore, adds>>

\* pandas_engine.compare_top(CompareTopParams(...))
CompareTop ==
    /\ \E column \in EngineColumns, n \in TopCounts,
          pair \in { <<"A", "B">>, <<"B", "A">>, <<"A", None>> } :
          LET r == compare_top(dataframes, column, n, pair[1], pair[2])
          IN  /\ dataframes' = r.dataframes
              /\ ret' = [op |-> "compare_top", column |-> column, n |-> n,
                         file1_id |-> pair[1], file2_id |-> pair[2],
                         out |-> Returned(r)]
    /\ UNCHANGED <<stores, disk_faiss, disk_pkl, documents, vstore, adds>>

\* the answers of the intent classifier tried
Responses ==
    { NonJson,
      Answer("unknown", [question |-> <<"q">>]),
      Answer("general_query", [question |-> <<"q">>]),
      Answer("document_query", [query |-> <<"q">>]),
      Answer("explain_row", [query |-> <<"q">>, file_id |-> None, top_k |-> 1]),
      Answer("filter_threshold",
             [column |-> "price", operator |-> ">", value |-> MaxValue, file_id |-> None]),
      Answer("top_n", [column |-> "zzz", n |-> 1, ascending |-> FALSE, file_id |-> None]),
      Answer("sort", [column |-> "price", ascending |-> TRUE, file_id |-> None, limit |-> 0]),
      Answer("compare_averages",
             [column |-> "price", file1_id |-> None, file2_id |-> None, group_by |-> None]),
      Answer("compare_top", [column |-> "price", n |-> 1, file1_id |-> "A", file2_id |-> "B"]) }

\* analytical_agent.process_query(user_query, enhance_prompt)
ProcessQuery ==
    /\ \E enhance \in {"off", "answers", "fails"}, response \in Responses,
          narrative_fails \in BOOLEAN :
          LET r == process_query(dataframes, documents, stores, disk_faiss, disk_pkl,
                                 enhance # "off",
                                 [enhance_fails |-> enhance = "fails",
                                  response |-> response,
                                  narrative_fails |-> narrative_fails])
          IN  /\ dataframes' = r.dataframes
              /\ stores' = r.stores
              /\ ret' = [op |-> "process_query", enhance |-> enhance,
                         response |-> response, narrative_fails |-> narrative_fails,
                         raised |-> r.raised, error |-> r.error,
                         details |-> r.details, calls |-> r.calls]
    /\ UNCHANGED <<disk_faiss, disk_pkl, documents, vstore, adds>>

\* The artifacts an earlier run of the program left for file f: those of
\* a one-chunk document.
Legacy(f) ==
    save(add_vectors(NewStore(VECTOR_DIMENSION), <<Vec(3, 4)>>, VECTOR_DIMENSION,
                     DocMetadata(<< <<"z">> >>, <<>>, f)).store)

\* the lone store, nothing on disk
InitStore ==
    /\ vstore = NewStore(VECTOR_DIMENSION)
    /\ adds = 0
    /\ stores = [f \in Ids |-> Absent]
    /\ disk_faiss = [f \in Ids |-> Absent]
    /\ disk_pkl = [f \in Ids |-> Absent]
    /\ dataframes = <<>>
    /\ documents = <<>>
    /\ ret = [op |-> "init"]

\* a fresh process: empty registries, and in VECTOR_DIR whatever artifacts
\* earlier runs left
Init ==
    /\ vstore = NewStore(VECTOR_DIMENSION)
    /\ adds = 0
    /\ stores = [f \in Ids |-> Absent]
    /\ \E present \in SUBSET FileIds :
          disk_faiss = [f \in Ids |-> IF f \in present THEN Legacy(f).faiss ELSE Absent]
    /\ \E present \in SUBSET FileIds :
          disk_pkl = [f \in Ids |-> IF f \in present THEN Legacy(f).pkl ELSE Absent]
    /\ dataframes = <<>>
    /\ documents = <<>>
    /\ ret = [op |-> "init"]

NextStore == StoreAdd \/ StoreSearch

SpecStore == InitStore /\ [][NextStore]_vars

Next ==
    \/ \E f \in FileIds : IngestCsv(f)
    \/ \E f \in FileIds : IngestDocument(f)
    \/ \E f \in FileIds : CreateStore(f)
    \/ \E f \in FileIds : SaveStore(f)
    \/ \E f \in FileIds : GetStore(f)
    \/ ListStores
    \/ \E f \in FileIds \cup {None} : SearchDocument(f)
    \/ \E f \in FileIds : Cleanup(f)

Spec == Init /\ [][Next]_vars

\* the engine and the agent over tables ingested without vectors
NextEngine ==
    \/ \E f \in Ids : LoadCsv(f)
    \/ FilterThreshold
    \/ SortData
    \/ TopN
    \/ CompareAverages
    \/ CompareTop
    \/ ProcessQuery

SpecEngine == InitStore /\ [][NextEngine]_vars

\* two documents ingested and searched in one process
NextDocs ==
    \/ \E f \in Ids : IngestDocument(f)
    \/ \E f \in Ids \cup {None} : SearchDocument(f)

SpecDocs == InitStore /\ [][NextDocs]_vars

\* chunk_text applied to a text
NextChunk == ChunkText

SpecChunk == InitStore /\ [][NextChunk]_vars

\* the upload buttons of the application
NextUpload == LoadCsvFiles \/ LoadDocuments

SpecUpload == InitStore /\ [][NextUpload]_vars

\* one run of the dashboard analysis
NextDashboard == StartAnalysis \/ RunPrompt \/ FinishAnalysis

SpecDashboard == InitStore /\ [][NextDashboard]_vars

\* ----------------------------------------------------------------- claims
\* C1: after any sequence of add_vectors calls, accepted or rejected, the
\* number of vectors in the index equals the number of metadata entries.
C1_IndexMatchesMetadata == size(vstore) = Len(vstore.metadata)

C1_Witness ==
    /\ ret.op = "add_vectors" /\ ret.raised
    /\ size(vstore) > 0

\* C2: add_vectors raises when the number of vectors differs from the
\* number of metadata entries or the vector width differs from the store
\* dimension, and then leaves the index and the metadata as they were.
C2_RejectedAddChangesNothing ==
    [][(ret'.op = "add_vectors" /\ adds' = adds + 1
          /\ (ret'.nvec # ret'.nmeta \/ ret'.width # vstore.dimension))
       => (ret'.raised /\ vstore' = vstore)]_vars

C2_Witness ==
    /\ ret.op = "add_vectors" /\ ret.raised
    /\ ret.nvec = ret.nmeta /\ ret.nvec > 0 /\ ret.width # vstore.dimension
    /\ adds = MaxAdds /\ size(vstore) > 0

\* rows of the store that belong to file f
RowsOf(store, f) == {i \in 1..Len(store.metadata) : store.metadata[i].file_id = f}

\* C4: a search with a source filter returns only units of that source,
\* also when nearer units of another source exist.
C4_FilteredSearchOnlyReturnsSource ==
    (ret.op = "search" /\ ret.file_id # None)
    => \A p \in 1..Len(ret.results) :
          vstore.metadata[ret.results[p][1]].file_id = ret.file_id

C4_Witness ==
    /\ ret.op = "search" /\ ret.file_id # None /\ ret.k >= 1
    /\ Len(ret.results) = ret.k
    /\ LET raw == search(vstore, ret.query, ret.k, None)
       IN  \E p \in 1..Len(raw) : vstore.metadata[raw[p][1]].file_id # ret.file_id

\* C5: a filtered search with k >= 1 returns min(k, number of indexed
\* units of the source) results.
C5_FilteredSearchNeverUnderReturns ==
    (ret.op = "search" /\ ret.file_id # None /\ ret.k >= 1)
    => Len(ret.results) = Min(ret.k, Cardinality(RowsOf(vstore, ret.file_id)))

\* C3 (as stated): creating an index for a file_id that already has one
\* fails with a duplicate-index error and leaves the existing index as it is.
C3_DuplicateCreateFails ==
    [][(ret'.op = "create_store" /\ ret'.existed)
       => (ret'.raised /\ stores' = stores)]_vars

\* C3 (amended): create_store never fails; whether or not the file_id has
\* a store, it registers a new empty store of the default dimension under
\* it, dropping the in-memory units of an existing one, and touches neither
\* the other stores nor the persisted artifacts.
C3_CreateAlwaysAllocates ==
    [][(ret'.op = "create_store")
       => /\ ~ret'.raised
          /\ stores' = [stores EXCEPT ![ret'.file_id] = NewStore(VECTOR_DIMENSION)]
          /\ UNCHANGED <<disk_faiss, disk_pkl, dataframes, documents>>]_vars

C3_Witness ==
    /\ ret.op = "create_store" /\ ret.existed
    /\ size(stores[ret.file_id]) = 0
    /\ disk_faiss[ret.file_id] # Absent /\ disk_pkl[ret.file_id] # Absent
    /\ DictHas(dataframes, ret.file_id)

\* C6: after the dashboard cleanup of a file_id, get_store returns no
\* store for it, list_stores does not list it and a retrieval for it
\* returns nothing.
C6_NoUnitsServedAfterCleanup ==
    (ret.op = "_cleanup")
    => /\ get_store(stores, disk_faiss, disk_pkl, ret.file_id).store = Absent
       /\ ret.file_id \notin list_stores(stores, disk_faiss)
       /\ \A q \in Queries, k \in 1..MaxK :
             search_document(documents, stores, disk_faiss, disk_pkl, q,
                             ret.file_id, k).results = <<>>

C8_CleanupIdempotent ==
    [][(ret'.op = "_cleanup")
       => LET f == ret'.file_id
          IN  /\ ~ret'.raised
              /\ disk_faiss'[f] = Absent /\ disk_pkl'[f] = Absent
              /\ ret'.deleted = {a \in {"faiss"} : disk_faiss[f] # Absent}
                                \cup {a \in {"pkl"} : disk_pkl[f] # Absent}
              /\ \A g \in Ids \ {f} :
                    disk_faiss'[g] = disk_faiss[g] /\ disk_pkl'[g] = disk_pkl[g]
              /\ UNCHANGED <<stores, dataframes, documents>>
              /\ (disk_faiss[f] = Absent /\ disk_pkl[f] = Absent)
                    => UNCHANGED <<disk_faiss, disk_pkl>>
              /\ (ret.op = "_cleanup" /\ ret.file_id = f)
                    => (ret'.deleted = {} /\ UNCHANGED <<disk_faiss, disk_pkl>>)]_vars

C8_Witness ==
    /\ ret.op = "_cleanup" /\ ret.deleted = {"pkl"}
    /\ disk_faiss[ret.file_id] = Absent /\ disk_pkl[ret.file_id] = Absent

\* C9: after a successful vectorised ingestion the store of the file_id
\* holds one unit per row followed by one per column (one per chunk
\* followed by one per Q&A pair for a document), metadata entry i holds the
\* preview of the text whose embedding is vector i, and the two artifacts
\* on disk hold the same vectors and metadata.
C9_IngestedUnitsInOrder ==
    /\ (ret.op = "ingest_csv" /\ ret.vectorize /\ ~ret.raised)
       => LET f == ret.file_id
              df == DictGet(dataframes, f).df
              st == stores[f]
              R == Len(df.rows)
              C == Len(df.columns)
          IN  /\ size(st) = R + C /\ Len(st.metadata) = R + C
              /\ \A n \in 1..R :
                    /\ st.metadata[n].file_id = f
                    /\ st.metadata[n].is_row_vector
                    /\ st.metadata[n].row_idx = n - 1
                    /\ st.metadata[n].original_text
                          = Preview(create_row_text(df.rows[n], df.columns))
                    /\ st.index[n] = normalize_L2(generate_embedding(
                                         create_row_text(df.rows[n], df.columns), FALSE))
              /\ \A c \in 1..C :
                    /\ st.metadata[R + c].file_id = f
                    /\ ~st.metadata[R + c].is_row_vector
                    /\ st.metadata[R + c].column_name = df.columns[c]
                    /\ st.metadata[R + c].original_text = create_column_summary(df, c)
                    /\ st.index[R + c] = normalize_L2(generate_embedding(
                                             create_column_summary(df, c), FALSE))
              /\ disk_faiss[f] = [d |-> st.dimension, vectors |-> st.index]
              /\ disk_pkl[f] = [metadata |-> st.metadata]
    /\ (ret.op = "ingest_document" /\ ret.vectorize /\ ~ret.raised)
       => LET f == ret.file_id
              e == DictGet(documents, f)
              st == stores[f]
              K == Len(e.chunks)
              Q == Len(e.qa_pairs)
          IN  /\ size(st) = K + Q /\ Len(st.metadata) = K + Q
              /\ \A n \in 1..K :
                    /\ st.metadata[n].file_id = f
                    /\ st.metadata[n].chunk_type = "text"
                    /\ st.metadata[n].chunk_idx = n - 1
                    /\ st.metadata[n].original_text = Preview(e.chunks[n])
                    /\ st.index[n] = normalize_L2(generate_embedding(e.chunks[n], FALSE))
              /\ \A n \in 1..Q :
                    /\ st.metadata[K + n].file_id = f
                    /\ st.metadata[K + n].chunk_type = "qa_pair"
                    /\ st.metadata[K + n].question_text = e.qa_pairs[n].question
                    /\ st.metadata[K + n].original_text = Preview(qa_text(e.qa_pairs[n]))
                    /\ st.index[K + n]
                          = normalize_L2(generate_embedding(qa_text(e.qa_pairs[n]), FALSE))
              /\ disk_faiss[f] = [d |-> st.dimension, vectors |-> st.index]
              /\ disk_pkl[f] = [metadata |-> st.metadata]

C9_Witness ==
    /\ ret.op = "ingest_csv" /\ ret.vectorize /\ ~ret.raised
    /\ Len(DictGet(dataframes, ret.file_id).df.rows) = 2
    /\ Len(DictGet(dataframes, ret.file_id).df.columns) = 2
    /\ size(stores[ret.file_id]) = 4

\* C10: an ingestion whose vectorisation raises leaves no trace: the
\* table / document registries and the manager's stores are as before.
C10_FailedIngestionLeavesNothing ==
    [][(ret'.op \in {"ingest_csv", "ingest_document"} /\ ret'.raised)
       => (dataframes' = dataframes /\ documents' = documents /\ stores' = stores)]_vars

\* x occurs in the sequence s
InSeq(x, s) == \E i \in 1..Len(s) : s[i] = x

\* C11: for every ingested table, every column name is in exactly one of
\* numeric_columns and text_columns, and the two lists together hold
\* exactly the table's columns.
C11_ColumnsPartitioned ==
    \A i \in 1..Len(dataframes) :
       LET df == dataframes[i].val.df
           numeric == dataframes[i].val.metadata.numeric_columns
           text == dataframes[i].val.metadata.text_columns
       IN  /\ \A c \in 1..Len(df.columns) :
                 InSeq(df.columns[c], numeric) # InSeq(df.columns[c], text)
           /\ \A j \in 1..Len(numeric) : InSeq(numeric[j], df.columns)
           /\ \A j \in 1..Len(text) : InSeq(text[j], df.columns)
           /\ Len(numeric) + Len(text) = Len(df.columns)

C11_Witness ==
    \E i \in 1..Len(dataframes) :
       /\ Len(dataframes[i].val.metadata.numeric_columns) >= 1
       /\ Len(dataframes[i].val.metadata.text_columns) >= 1

\* the rows of df, by position, whose cell in `column` is a number
\* strictly greater than x
GreaterRows(df, column, x) ==
    {n \in 1..Len(df.rows) :
        LET cell == df.rows[n][ColIdx(df, column)]
        IN  cell \in Numbers /\ Num(cell) > x}

\* the filter_threshold call with operator '>' that has just returned
FilteredGreater ==
    /\ ret.op = "filter_threshold"
    /\ ret.operator = ">"
    /\ ~ret.out.raised

C13_TopNIsSortPrefix ==
    (ret.op = "top_n" /\ ~ret.ascending) =>
       LET sorted == sort_data(dataframes, ret.column, FALSE, ret.file_id, 0)
       IN  IF sorted.raised THEN ret.out.raised
           ELSE /\ ~ret.out.raised
                /\ ret.out.result_table = head(sorted.result_table, ret.n)

EngineOps == {"compare_averages", "filter_threshold", "sort_data", "top_n", "compare_top"}

\* the operation that has just returned named no source of its own and
\* fell back on the default one
UsedDefault(r) ==
    \/ r.op \in {"filter_threshold", "sort_data", "top_n"} /\ r.file_id = None
    \/ r.op = "compare_averages" /\ r.file1_id = None

\* C15: an engine operation given no source id operates on the
\* earliest-ingested table: the table ingested first stays the first one
\* whatever is ingested or ingested again later, and it is the one the
\* operation reads.
C15_DefaultIsEarliestIngested ==
    [][/\ (dataframes = <<>> /\ ret'.op = "ingest_csv")
            => dataframes'[1].key = ret'.file_id
       /\ dataframes # <<>>
            => (dataframes' # <<>> /\ dataframes'[1].key = dataframes[1].key)
       /\ (ret'.op \in EngineOps /\ UsedDefault(ret') /\ ~ret'.out.raised)
            => ret'.out.source = dataframes[1].key]_vars

C15_Witness ==
    /\ Len(dataframes) = 2
    /\ dataframes[1].key = "B"
    /\ ret.op = "top_n"
    /\ ret.file_id = None
    /\ ~ret.out.raised
    /\ ret.out.source = "B"

\* the sources the operation that has just returned reads
ReadsOf(r) ==
    IF r.op = "compare_top" \/ (r.op = "compare_averages" /\ r.file1_id # None
                                                        /\ r.file2_id # None)
    THEN {r.file1_id, r.file2_id} \ {None}
    ELSE IF r.op = "compare_averages"
    THEN IF r.file1_id # None THEN {r.file1_id}
         ELSE {dataframes[i].key : i \in {1} \cap (1..Len(dataframes))}
    ELSE IF r.file_id # None THEN {r.file_id}
         ELSE {dataframes[i].key : i \in {1} \cap (1..Len(dataframes))}

\* C16: each of the five engine operations fails, and returns no result,
\* when the named column is absent from a source it reads.
C16_AbsentColumnFails ==
    ret.op \in EngineOps =>
       ((\E f \in ReadsOf(ret) :
            /\ DictHas(dataframes, f)
            /\ ~HasColumn(get_dataframe(dataframes, f), ret.column))
        => (ret.out.raised /\ "result_table" \notin DOMAIN ret.out))

C16_Witness ==
    /\ ret.op = "compare_averages"
    /\ ret.file1_id = "B" /\ ret.file2_id = "A"
    /\ DictHas(dataframes, "A") /\ DictHas(dataframes, "B")
    /\ HasColumn(get_dataframe(dataframes, "B"), ret.column)
    /\ ~HasColumn(get_dataframe(dataframes, "A"), ret.column)
    /\ ret.out.raised

\* C17: no engine operation, whether it succeeds or fails, changes the
\* loaded tables, their rows or their schema metadata (or anything else
\* stored).
C17_EngineIsReadOnly ==
    [][ret'.op \in EngineOps
       => /\ dataframes' = dataframes
          /\ UNCHANGED <<stores, disk_faiss, disk_pkl, documents>>]_vars

C17_Witness ==
    /\ ret.op = "sort_data"
    /\ ~ret.out.raised
    /\ ret.limit = 0
    /\ ret.out.result_table # get_dataframe(dataframes, ret.out.source).rows

\* the two-source compare_averages call that has just returned
ComparedTwo ==
    /\ ret.op = "compare_averages"
    /\ ret.file1_id # None /\ ret.file2_id # None
    /\ ~ret.out.raised

\* the fraction a is the sum of the present cells over their number
IsMeanOf(a, cells) ==
    LET count == Cardinality({n \in 1..Len(cells) : cells[n] # NaN})
    IN  IF count = 0 THEN a = NotANumber
        ELSE a # NotANumber /\ a.num * count = SumCells(cells) * a.den

C19_NoDataBeforeAnything ==
    (ret.op = "process_query" /\ dataframes = <<>> /\ documents = <<>>) =>
       /\ ret.error = "no_data"
       /\ \A i \in 1..Len(ret.calls) :
             ret.calls[i] \notin {"parse_intent", "pandas_engine", "_explain_row"}

\* C20: when the intent classifier answers with an unknown intent or with
\* no JSON, process_query returns the unsupported_intent error, not
\* execution_error, and calls the classifier once.
C20_UnknownIntentIsUnsupported ==
    (/\ ret.op = "process_query"
     /\ ret.enhance # "fails"
     /\ dataframes # <<>>
     /\ ret.response \in {NonJson, Answer("unknown", [question |-> <<"q">>])}) =>
       /\ ret.error = "unsupported_intent"
       /\ Cardinality({i \in 1..Len(ret.calls) : ret.calls[i] = "parse_intent"}) = 1

\* C21: process_query never raises: an exception thrown while the query
\* is enhanced, classified, executed or narrated is caught and returned as
\* an execution_error whose details are the message of that exception.
C21_ExceptionsAreReturned ==
    [][ ret'.op = "process_query" =>
          LET classified == /\ ret'.enhance # "fails"
                            /\ ~(dataframes = <<>> /\ documents = <<>>)
              executed == /\ classified
                          /\ ret'.response.json
                          /\ ret'.response.intent \in
                                {"compare_averages", "filter_threshold", "sort",
                                 "top_n", "compare_top"}
          IN
          /\ ~ret'.raised
          /\ ret'.enhance = "fails" =>
                ret'.error = "execution_error" /\ ret'.details = "service error"
          /\ classified /\ ~ret'.response.json =>
                ret'.error = "execution_error" /\ ret'.details = "Expecting value"
          /\ executed =>
                LET r == _execute_intent(dataframes, ret'.response.intent,
                                         ret'.response.parameters)
                IN  /\ r.raised =>
                          /\ ret'.error = "execution_error"
                          /\ ret'.details = r.message
                    /\ ~r.raised /\ ret'.narrative_fails =>
                          /\ ret'.error = "execution_error"
                          /\ ret'.details = "service error"
                    /\ ~r.raised /\ ~ret'.narrative_fails => ret'.error = "none"
      ]_vars

\* a query whose engine call raised came back as an execution_error
\* carrying the engine's message
C21_Witness ==
    /\ ret.op = "process_query"
    /\ ret.response.json
    /\ ret.response.intent = "top_n"
    /\ ~ret.raised
    /\ ret.error = "execution_error"
    /\ ret.details = "engine error"

\* the units of the sources search_document knows of: one per vector of
\* the store of each file_id in self.documents
KnownUnits ==
    UNION { { <<f, n>> : n \in 1..size(stores[f]) } :
            f \in { g \in Ids : DictHas(documents, g) /\ stores[g] # Absent } }

\* C22: a retrieval without a source id searches every known source and
\* returns the top_k units of highest similarity (1 - distance to the
\* normalised query) over the union of their units, in descending order
\* of similarity.
C22_SearchesEverySource ==
    ret.op = "search_document" /\ ret.file_id = None /\ ~ret.raised =>
       LET Similarity(u) ==
              One * One - L2(stores[u[1]].index[u[2]], normalize_L2(ret.query))
       IN
       /\ Len(ret.results) = Min(ret.top_k, Cardinality(KnownUnits))
       /\ \A i, j \in 1..Len(ret.results) :
             i < j => ret.results[i].similarity >= ret.results[j].similarity
       /\ \A i \in 1..Len(ret.results) :
             \E u \in KnownUnits :
                /\ ret.results[i].file_id = u[1]
                /\ ret.results[i].similarity = Similarity(u)
                /\ ret.results[i].text = stores[u[1]].metadata[u[2]].original_text
       /\ \A v \in KnownUnits :
             Cardinality({ i \in 1..Len(ret.results) :
                             ret.results[i].similarity >= Similarity(v) })
                = Min(ret.top_k,
                      Cardinality({ u \in KnownUnits : Similarity(u) >= Similarity(v) }))

\* a search over two sources returned units of both, although one source
\* alone had enough units to fill top_k
C22_Witness ==
    /\ ret.op = "search_document" /\ ret.file_id = None /\ ~ret.raised
    /\ ret.top_k = MaxK
    /\ Len(ret.results) = MaxK
    /\ \A f \in Ids : stores[f] # Absent /\ size(stores[f]) >= MaxK
    /\ { ret.results[i].file_id : i \in 1..Len(ret.results) } = Ids

C24_SearchIsReadOnly ==
    [][ ret'.op = "search_document" =>
           /\ documents' = documents
           /\ stores' = stores
      ]_vars

\* C24 amended: search_document changes neither the document store nor
\* the persisted artifacts nor any store the manager already holds; all it
\* changes is that a searched source whose store was not in memory and
\* whose two artifacts exist is registered with the store loaded from them.
C24_SearchOnlyCachesLoads ==
    [][ ret'.op = "search_document" =>
           /\ documents' = documents
           /\ dataframes' = dataframes
           /\ disk_faiss' = disk_faiss /\ disk_pkl' = disk_pkl
           /\ \A f \in Ids :
                 IF /\ stores[f] = Absent
                    /\ disk_faiss[f] # Absent /\ disk_pkl[f] # Absent
                    /\ IF ret'.file_id # None THEN f = ret'.file_id
                       ELSE DictHas(documents, f)
                 THEN stores'[f] = load(disk_faiss[f], disk_pkl[f]).store
                 ELSE stores'[f] = stores[f]
      ]_vars

\* a search registered a store it loaded from the artifacts and returned
\* units of it
C24_Witness ==
    /\ ret.op = "search_document"
    /\ ret.loaded = {"A"}
    /\ ret.results # <<>>
    /\ stores["A"] = load(disk_faiss["A"], disk_pkl["A"]).store

\* the non-blank paragraphs of a text, in order, each as chunk_text sees
\* it after strip()
ParasOf(lines) ==
    LET kept == SelectSeq(lines, LAMBDA l : l # <<>>)
    IN  [n \in 1..Len(kept) |-> Join(kept[n], Len(kept[n]))]

\* the words chunk i (i > 1) starts with: the overlap carried over from
\* chunk i - 1
Carried(chunks, i, overlap) ==
    LET kept == TailFrom(Words(chunks[i - 1]), (0 - overlap) \div 5)
    IN  Join(kept, Len(kept))

RECURSIVE SplitLines(_, _)
\* str[1..n] cut at its line breaks
SplitLines(str, n) ==
    IF n = 0 THEN << <<>> >>
    ELSE LET before == SplitLines(str, n - 1)
         IN  IF str[n] = NL THEN Append(before, <<>>)
             ELSE [before EXCEPT ![Len(before)] = Append(@, str[n])]

\* the paragraphs of chunk i outside the carried-over overlap: the chunk
\* without the overlap words and the blank after them, cut at line breaks
Pieces(chunks, i, overlap) ==
    LET body == IF i = 1 THEN chunks[1]
                ELSE SubSeq(chunks[i], Len(Carried(chunks, i, overlap)) + 2,
                            Len(chunks[i]))
    IN  SplitLines(body, Len(body))

RECURSIVE AllPieces(_, _, _)
\* the paragraphs of the first n chunks outside the overlaps
AllPieces(chunks, n, overlap) ==
    IF n = 0 THEN <<>>
    ELSE AllPieces(chunks, n - 1, overlap) \o Pieces(chunks, n, overlap)

\* C25: chunk_text drops no paragraph: every non-blank paragraph appears
\* whole, exactly once outside the carried-over overlap, in the chunks in
\* the original order, and the last non-empty buffer is emitted as the
\* final chunk.
C25_NoParagraphDropped ==
    ret.op = "chunk_text" =>
       /\ \A i \in 2..Len(ret.chunks) :
             SubSeq(ret.chunks[i], 1, Len(Carried(ret.chunks, i, ret.overlap)) + 1)
                = Carried(ret.chunks, i, ret.overlap) \o <<SP>>
       /\ AllPieces(ret.chunks, Len(ret.chunks), ret.overlap) = ParasOf(ret.lines)
       /\ ParasOf(ret.lines) # <<>> =>
             LET last == Pieces(ret.chunks, Len(ret.chunks), ret.overlap)
             IN  last[Len(last)] = ParasOf(ret.lines)[Len(ParasOf(ret.lines))]

\* a text of three paragraphs with a blank line was cut into two chunks,
\* the second starting with carried-over words
C25_Witness ==
    /\ ret.op = "chunk_text"
    /\ Len(ret.lines) = 3 /\ \E n \in 1..3 : ret.lines[n] = <<>>
    /\ Len(ParasOf(ret.lines)) = 2
    /\ Len(ret.chunks) = 2
    /\ Len(Carried(ret.chunks, 2, ret.overlap)) > 1

\* C26 as stated: chunk_text never splits a paragraph, and a chunk is
\* longer than the target size only when a single paragraph by itself
\* exceeds the target size.
C26_OverTargetOnlyForLongParagraph ==
    ret.op = "chunk_text" =>
       \A i \in 1..Len(ret.chunks) :
          Len(ret.chunks[i]) > ret.chunk_size =>
             \E n \in 1..Len(ParasOf(ret.lines)) :
                Len(ParasOf(ret.lines)[n]) > ret.chunk_size

\* C26 amended: chunk_text never splits a paragraph: outside the
\* carried-over overlap every chunk is made of whole paragraphs of the
\* text.  A chunk of two or more paragraphs is at most one character (the
\* joining line break) longer than the target; a chunk longer than that
\* holds a single paragraph, and a first chunk longer than the target by
\* more than one is a paragraph that exceeds the target by itself.
C26_ParagraphsKeptWhole ==
    ret.op = "chunk_text" =>
       \A i \in 1..Len(ret.chunks) :
          LET pieces == Pieces(ret.chunks, i, ret.overlap)
          IN  /\ \A n \in 1..Len(pieces) :
                    \E m \in 1..Len(ParasOf(ret.lines)) : pieces[n] = ParasOf(ret.lines)[m]
              /\ Len(pieces) >= 2 => Len(ret.chunks[i]) <= ret.chunk_size + 1
              /\ Len(ret.chunks[i]) > ret.chunk_size + 1 /\ i = 1 =>
                    /\ Len(pieces) = 1
                    /\ pieces[1] = ret.chunks[i]

\* a chunk came out longer than the target although no paragraph of the
\* text is longer than the target
C26_Witness ==
    /\ ret.op = "chunk_text"
    /\ \A n \in 1..Len(ParasOf(ret.lines)) : Len(ParasOf(ret.lines)[n]) <= ret.chunk_size
    /\ \E i \in 1..Len(ret.chunks) : Len(ret.chunks[i]) > ret.chunk_size + 1
    /\ \E i \in 1..Len(ret.chunks) :
          Len(Pieces(ret.chunks, i, ret.overlap)) >= 2

\* C27: ingesting a document whose text is empty never fails, with or
\* without vectorisation: it produces zero chunks and zero QA units, and
\* the stored metadata reports zero characters, chunks and QA pairs.
C27_EmptyDocumentNeverFails ==
    ret.op = "ingest_document"
    /\ DictGet(documents, ret.file_id).lines = << <<>> >> =>
       /\ ~ret.raised
       /\ DictGet(documents, ret.file_id).chunks = <<>>
       /\ DictGet(documents, ret.file_id).qa_pairs = <<>>
       /\ DictGet(documents, ret.file_id).metadata.num_characters = 0
       /\ DictGet(documents, ret.file_id).metadata.num_chunks = 0
       /\ DictGet(documents, ret.file_id).metadata.num_qa_pairs = 0

\* C28: in a batch upload one file's failure is recorded as that file's
\* error result and every other file is still ingested; there is exactly
\* one result per file, in upload order.  An ingestion fails when the file
\* cannot be parsed, the embedding service fails or answers with vectors of
\* another width, or there is nothing to embed.
C28_OneResultPerFile ==
    ret.op = "upload" =>
       /\ Len(ret.loaded) = Len(ret.uploads)
       /\ \A i \in 1..Len(ret.uploads) :
             LET upload == ret.uploads[i]
                 fails == \/ upload.content = [unreadable |-> TRUE]
                          \/ upload.service # "ok"
                          \/ /\ ret.type = "document"
                             /\ upload.content.lines = << <<>> >>
             IN
             /\ ret.loaded[i].name = upload.name
             /\ ret.loaded[i].type = ret.type
             /\ ret.loaded[i].status = "error" <=> fails
             /\ ret.loaded[i].status = "success" <=> ~fails
             /\ ret.loaded[i].status = "success" =>
                   LET f == ret.loaded[i].file_id
                   IN  /\ IF ret.type = "csv" THEN DictHas(dataframes, f)
                          ELSE DictHas(documents, f)
                       /\ stores[f] # Absent /\ size(stores[f]) > 0
                       /\ disk_faiss[f] # Absent /\ disk_pkl[f] # Absent

\* the first file of a batch failed and the second was ingested
C28_Witness ==
    /\ ret.op = "upload"
    /\ Len(ret.uploads) = 2
    /\ ret.loaded[1].status = "error"
    /\ ret.loaded[2].status = "success"
    /\ stores[ret.loaded[2].file_id] # Absent

\* C29: in the summary of top_n, highest_value is the largest and
\* lowest_in_top the smallest of the returned top_values, for either
\* value of ascending.
C29_HighestIsLargestOfTop ==
    (/\ ret.op = "top_n"
     /\ ~ret.out.raised
     /\ ret.out.numbers.top_values # <<>>
     /\ \A i \in 1..Len(ret.out.numbers.top_values) :
           ret.out.numbers.top_values[i] \in Numbers) =>
       \A i \in 1..Len(ret.out.numbers.top_values) :
          /\ Num(ret.out.numbers.highest_value) >= Num(ret.out.numbers.top_values[i])
          /\ Num(ret.out.numbers.lowest_in_top) <= Num(ret.out.numbers.top_values[i])

====
